---- MODULE Spec2Model ----
(***************************************************************************)
(* Via stitcher (via_stitcher_v2.py): the grid-bucketed proximity indices, *)
(* the board geometry checker, the candidate generators and the fill run.  *)
(*                                                                         *)
(* Lengths are integers in board units.  The plugin works in nanometres    *)
(* (pcbnew.FromMM); the model scales the unit to IU_PER_MM units per       *)
(* millimetre so that squared distances stay inside TLC's integers.  The   *)
(* code's floating-point comparisons are modelled exactly: a distance      *)
(* sqrt(d2) is compared with a length r as d2 against r*r.                 *)
(***************************************************************************)
EXTENDS Integers, Sequences, FiniteSets, TLC

VARIABLES
    pc,             \* position of the running operation
    spatial_index,  \* SpatialIndex: [grid_size, grid]
    track_index,    \* TrackSpatialIndex: [grid_size, grid]
    added,          \* history: the entries passed to add_via / add_track so far
    out,            \* result of the last index query or checker call
    settings,       \* the settings of the dialog, lengths in board units
    board,          \* the host board: pads, tracks and vias, zones, edges, groups
    pad_index,      \* BoardGeometryChecker.pad_index
    board_outline,  \* BoardGeometryChecker.board_outline
    keepout_zones,  \* BoardGeometryChecker.keepout_zones
    net_code,       \* the net chosen in the dialog
    fill_zones,     \* the zones Run passes to the fill as target regions
    all_candidate_positions, \* fill run: the candidates of all target zones
    processed,      \* fill run: candidates evaluated so far
    valid_positions,\* fill run: the accepted positions
    skip_reasons,   \* fill run: rejection counters by reason
    created_vias,   \* fill run: vias created so far
    i_create,       \* fill run: loop index i of the creation loop
    group,          \* fill run: position of the run's group in board.groups, 0 for None
    messages        \* the message boxes shown, oldest first

indexVars == <<spatial_index, track_index, added>>
checkerVars == <<pad_index, board_outline, keepout_zones>>
fillVars == <<net_code, fill_zones, all_candidate_positions, processed, valid_positions, skip_reasons,
              created_vias, i_create, group, messages>>
vars == <<pc, spatial_index, track_index, added, out, settings, board,
          pad_index, board_outline, keepout_zones, net_code, fill_zones, all_candidate_positions,
          processed, valid_positions, skip_reasons, created_vias, i_create, group,
          messages>>

(***************************************************************************)
(* Bounds of the model.                                                    *)
(***************************************************************************)
MaxCoordX == 2      \* index specifications: x in -MaxCoordX..MaxCoordX
MaxCell == 2        \* index specifications: cell sizes 1..MaxCell
MaxRadius == 3      \* index specifications: query radii up to MaxRadius
MaxVias == 2        \* SpecVia: number of add_via calls
MaxTrackX == 1      \* SpecTrack: segment end points have x in -MaxTrackX..MaxTrackX
MaxTracks == 1      \* SpecTrack: number of add_track calls
MaxUpdates == 3     \* SpecClear: the user cancels at one of the first MaxUpdates updates

\* Points of the index specifications: a band three units high.
Points == [x : (-MaxCoordX)..MaxCoordX, y : {-1, 0, 1}]

\* Start and end points of the segments of SpecTrack: horizontal segments
\* and segments that cross a cell row, in both x directions.
TrackStarts == [x : (-MaxTrackX)..MaxTrackX, y : {0}]
TrackEnds == [x : (-MaxTrackX)..MaxTrackX, y : {-1, 0}]

(***************************************************************************)
(* Arithmetic helpers.                                                     *)
(***************************************************************************)
\* Python's a // b on integers, b > 0 (floor division).
FloorDiv(a, b) == a \div b

\* int(math.ceil(a / b)) for integers a and b > 0.
CeilDiv(a, b) == -((-a) \div b)

\* Square of the Euclidean distance of two points.
DistSq(p, q) == (p.x - q.x) * (p.x - q.x) + (p.y - q.y) * (p.y - q.y)

\* math.sqrt(d2) <= r
SqrtLeq(d2, r) == r >= 0 /\ d2 <= r * r

\* math.sqrt(d2) < r
SqrtLt(d2, r) == r > 0 /\ d2 < r * r

\* list(range(lo, hi + 1))
RangeSeq(lo, hi) == [k \in 1..(IF hi >= lo THEN hi - lo + 1 ELSE 0) |-> lo + k - 1]

RECURSIVE ConcatAll(_)
ConcatAll(ss) == IF ss = <<>> THEN <<>> ELSE Head(ss) \o ConcatAll(Tail(ss))

\* The cells visited by "for dx in range(-g, g+1): for dy in range(-g, g+1)",
\* in the order of the two loops.
CheckCoords(gx, gy, g) ==
    LET ds == RangeSeq(-g, g)
        n == Len(ds)
    IN  [k \in 1..(n * n) |-> <<gx + ds[((k - 1) \div n) + 1], gy + ds[((k - 1) % n) + 1]>>]

(***************************************************************************)
(* SpatialIndex                                                            *)
(***************************************************************************)
\* SpatialIndex.__init__: an empty dict of buckets.
NewIndex(grid_size) == [grid_size |-> grid_size, grid |-> <<>>]

\* SpatialIndex._get_grid_coords
get_grid_coords(idx, pos) ==
    <<FloorDiv(pos.x, idx.grid_size), FloorDiv(pos.y, idx.grid_size)>>

\* SpatialIndex.add_via: append (pos, via) to the bucket of pos's cell.
add_via(idx, pos, via) ==
    LET c == get_grid_coords(idx, pos)
    IN  IF c \in DOMAIN idx.grid
        THEN [idx EXCEPT !.grid = [@ EXCEPT ![c] = Append(@, <<pos, via>>)]]
        ELSE [idx EXCEPT !.grid = (c :> <<<<pos, via>>>>) @@ @]

\* A plausible slip: the search range rounds down instead of up.
grid_radius_floor(radius, grid_size) == FloorDiv(radius, grid_size)

\* grid_radius = int(math.ceil(radius / self.grid_size))
grid_radius_of(radius, grid_size) == CeilDiv(radius, grid_size)

\* SpatialIndex.get_nearby_vias: the entries (via_pos, via, distance) of the
\* buckets within grid_radius cells whose distance is <= radius; the third
\* component carries the squared distance.
get_nearby_vias(idx, pos, radius) ==
    LET c == get_grid_coords(idx, pos)
        g == grid_radius_of(radius, idx.grid_size)
        cells == CheckCoords(c[1], c[2], g)
        bucket(k) ==
            IF cells[k] \in DOMAIN idx.grid
            THEN LET hit == SelectSeq(idx.grid[cells[k]],
                                      LAMBDA e : SqrtLeq(DistSq(pos, e[1]), radius))
                 IN  [j \in DOMAIN hit |-> <<hit[j][1], hit[j][2], DistSq(pos, hit[j][1])>>]
            ELSE <<>>
    IN  ConcatAll([k \in DOMAIN cells |-> bucket(k)])

(***************************************************************************)
(* TrackSpatialIndex and point_to_segment_distance                         *)
(***************************************************************************)
Min(a, b) == IF a <= b THEN a ELSE b
Max(a, b) == IF a >= b THEN a ELSE b

\* A plausible slip: the segment is registered like a point, in the cell of
\* its start point only.
segment_grid_cells_start(idx, start, end) ==
    { <<FloorDiv(start.x, idx.grid_size), FloorDiv(start.y, idx.grid_size)>> }

\* TrackSpatialIndex._get_segment_grid_cells: every cell of the cell range
\* of the segment's bounding box.
get_segment_grid_cells(idx, start, end) ==
    LET start_gx == FloorDiv(Min(start.x, end.x), idx.grid_size)
        end_gx == FloorDiv(Max(start.x, end.x), idx.grid_size)
        start_gy == FloorDiv(Min(start.y, end.y), idx.grid_size)
        end_gy == FloorDiv(Max(start.y, end.y), idx.grid_size)
    IN  { <<gx, gy>> : gx \in start_gx..end_gx, gy \in start_gy..end_gy }

\* TrackSpatialIndex.add_track: append track_info to the bucket of every
\* cell of the segment.
add_track(idx, track_info) ==
    LET cells == get_segment_grid_cells(idx, track_info.start, track_info.end)
    IN  [idx EXCEPT !.grid =
            [c \in (DOMAIN @) \cup cells |->
                IF c \in cells
                THEN Append(IF c \in DOMAIN @ THEN @[c] ELSE <<>>, track_info)
                ELSE @[c]]]

\* The entries of s in order, each track (by identity) kept once.
RECURSIVE DedupByTrack(_, _)
DedupByTrack(s, seen) ==
    IF s = <<>> THEN <<>>
    ELSE IF Head(s).track \in seen THEN DedupByTrack(Tail(s), seen)
    ELSE <<Head(s)>> \o DedupByTrack(Tail(s), seen \cup {Head(s).track})

\* TrackSpatialIndex.get_nearby_tracks: the tracks registered in a cell
\* within int(ceil(radius / grid_size)) + 1 cells of pos's cell, each once.
\* radius2 is twice the radius (the caller's radius may be a half-integer).
get_nearby_tracks(idx, pos, radius2) ==
    LET c == get_grid_coords(idx, pos)
        g == CeilDiv(radius2, 2 * idx.grid_size) + 1
        cells == CheckCoords(c[1], c[2], g)
        bucket(k) == IF cells[k] \in DOMAIN idx.grid THEN idx.grid[cells[k]] ELSE <<>>
    IN  DedupByTrack(ConcatAll([k \in DOMAIN cells |-> bucket(k)]), {})

\* A plausible slip: the projection parameter is not clamped (the distance
\* to the line through the segment).
point_to_line_distance(point, seg_start, seg_end) ==
    LET dx == seg_end.x - seg_start.x
        dy == seg_end.y - seg_start.y
        seg_len_sq == dx * dx + dy * dy
        dot == (point.x - seg_start.x) * dx + (point.y - seg_start.y) * dy
    IN  IF seg_len_sq = 0 THEN [num |-> DistSq(point, seg_start), den |-> 1]
        ELSE [num |-> DistSq(point, seg_start) * seg_len_sq - dot * dot,
              den |-> seg_len_sq]

\* point_to_segment_distance: the square of the returned distance, as the
\* fraction num / den (den > 0).  With w = point - seg_start, d = seg_end -
\* seg_start and t = clamp(w.d / d.d, 0, 1), the distance is |w - t d|.
point_to_segment_distance(point, seg_start, seg_end) ==
    LET dx == seg_end.x - seg_start.x
        dy == seg_end.y - seg_start.y
        seg_len_sq == dx * dx + dy * dy
        dot == (point.x - seg_start.x) * dx + (point.y - seg_start.y) * dy
    IN  IF seg_len_sq = 0 THEN [num |-> DistSq(point, seg_start), den |-> 1]
        ELSE IF dot <= 0 THEN [num |-> DistSq(point, seg_start), den |-> 1]
        ELSE IF dot >= seg_len_sq THEN [num |-> DistSq(point, seg_end), den |-> 1]
        ELSE [num |-> DistSq(point, seg_start) * seg_len_sq - dot * dot,
              den |-> seg_len_sq]

\* sqrt(d.num / d.den) <= len2 / 2
DistLeqHalf(d, len2) == len2 >= 0 /\ 4 * d.num <= len2 * len2 * d.den

\* sqrt(d.num / d.den) < len2 / 2
DistLtHalf(d, len2) == len2 > 0 /\ 4 * d.num < len2 * len2 * d.den

(***************************************************************************)
(* PadSpatialIndex                                                         *)
(***************************************************************************)
\* PadSpatialIndex.add_pad: append (center, pad_info) to the bucket of the
\* centre's cell.
add_pad(idx, center, pad_info) ==
    LET c == get_grid_coords(idx, center)
    IN  IF c \in DOMAIN idx.grid
        THEN [idx EXCEPT !.grid = [@ EXCEPT ![c] = Append(@, <<center, pad_info>>)]]
        ELSE [idx EXCEPT !.grid = (c :> <<<<center, pad_info>>>>) @@ @]

\* PadSpatialIndex.get_nearby_pads: the pads of the buckets within
\* int(ceil(radius / grid_size)) + 1 cells whose centre distance is
\* <= radius + pad radius.  radius2 and pad_info.radius2 are twice the
\* lengths; the third component carries the squared distance.
get_nearby_pads(idx, pos, radius2) ==
    LET c == get_grid_coords(idx, pos)
        g == CeilDiv(radius2, 2 * idx.grid_size) + 1
        cells == CheckCoords(c[1], c[2], g)
        near(e) == DistLeqHalf([num |-> DistSq(pos, e[1]), den |-> 1],
                               radius2 + e[2].radius2)
        bucket(k) ==
            IF cells[k] \in DOMAIN idx.grid
            THEN LET hit == SelectSeq(idx.grid[cells[k]], near)
                 IN  [j \in DOMAIN hit |-> <<hit[j][1], hit[j][2], DistSq(pos, hit[j][1])>>]
            ELSE <<>>
    IN  ConcatAll([k \in DOMAIN cells |-> bucket(k)])

(***************************************************************************)
(* The host board (pcbnew), as the plugin reads it.                        *)
(*   pads    : [id, pos, size, net_code, readable]                         *)
(*   tracks  : GetTracks(), traces [type = "trace", id, start, end, width, *)
(*             net_code] and vias [type = "via", id, pos, net_code]        *)
(*   zones   : [id, bbox, outline, poly, bbox_ok, net_code, is_rule_area,  *)
(*             do_not_allow_vias]; outline is "poly" (Outline() returns    *)
(*             the polygon poly, a set of boxes), "none" (it returns       *)
(*             nothing) or "raise"; bbox_ok tells whether GetBoundingBox() *)
(*             can be read                                                 *)
(*   edges   : [readable, bbox, has_drawings, poly], the Edge.Cuts         *)
(*             outline; poly is the region the drawings enclose (a set of  *)
(*             boxes)                                                      *)
(*   groups  : [name, items]                                               *)
(***************************************************************************)
Box(l, t, r, b) == [left |-> l, top |-> t, right |-> r, bottom |-> b]
GetWidth(bbox) == bbox.right - bbox.left
GetHeight(bbox) == bbox.bottom - bbox.top

\* bbox.GetLeft() <= p.x <= bbox.GetRight() and bbox.GetTop() <= p.y <= bbox.GetBottom()
InBox(p, bbox) ==
    /\ bbox.left <= p.x /\ p.x <= bbox.right
    /\ bbox.top <= p.y /\ p.y <= bbox.bottom

\* SHAPE_POLY_SET.Contains(pt) of the host, for a polygon given as a set of
\* boxes that cover it.
Contains(poly, pt) == \E b \in poly : InBox(pt, b)

(***************************************************************************)
(* BoardGeometryChecker                                                    *)
(***************************************************************************)
\* max_track_width = 1000000 (1 mm in nanometres), in board units.
IU_PER_MM == 10
max_track_width == IU_PER_MM

\* _build_pad_index: every readable pad, with its circle radius
\* max(size.x, size.y) / 2 (kept doubled).
RECURSIVE build_pad_index(_, _)
build_pad_index(idx, pads) ==
    IF pads = <<>> THEN idx
    ELSE LET pad == Head(pads)
             pad_info == [pad |-> pad.id, radius2 |-> Max(pad.size.x, pad.size.y),
                          net_code |-> pad.net_code]
         IN  build_pad_index(IF pad.readable THEN add_pad(idx, pad.pos, pad_info) ELSE idx,
                             Tail(pads))

\* _build_track_index: every item of GetTracks() of type PCB_TRACE_T.
RECURSIVE build_track_index(_, _)
build_track_index(idx, items) ==
    IF items = <<>> THEN idx
    ELSE LET item == Head(items)
             track_info == [track |-> item.id, start |-> item.start, end |-> item.end,
                            width |-> item.width, net_code |-> item.net_code]
         IN  build_track_index(IF item.type = "trace" THEN add_track(idx, track_info) ELSE idx,
                               Tail(items))

\* A plausible slip: the bounding box is used whatever its size.
get_board_outline_any_size(b) ==
    IF ~b.edges.readable THEN [type |-> "None"]
    ELSE IF ~b.edges.has_drawings THEN [type |-> "bbox", bbox |-> b.edges.bbox]
    ELSE [type |-> "segments", segments |-> b.edges.poly, bbox |-> b.edges.bbox]

\* _get_board_outline: None, the bounding box alone, or the bounding box
\* with the Edge.Cuts segments.
get_board_outline(b) ==
    IF ~b.edges.readable THEN [type |-> "None"]
    ELSE IF GetWidth(b.edges.bbox) = 0 \/ GetHeight(b.edges.bbox) = 0 THEN [type |-> "None"]
    ELSE IF ~b.edges.has_drawings THEN [type |-> "bbox", bbox |-> b.edges.bbox]
    ELSE [type |-> "segments", segments |-> b.edges.poly, bbox |-> b.edges.bbox]

\* _get_keepout_zones: the rule areas that do not allow vias.
get_keepout_zones(b) ==
    SelectSeq(b.zones, LAMBDA z : z.is_rule_area /\ z.do_not_allow_vias)

\* is_point_in_board: inside the outline bounding box shrunk by the via
\* radius (via_size / 2); True without an outline.
is_point_in_board(outline, via_size, point) ==
    IF outline.type = "None" THEN TRUE
    ELSE ~ \/ 2 * point.x < 2 * outline.bbox.left + via_size
           \/ 2 * point.x > 2 * outline.bbox.right - via_size
           \/ 2 * point.y < 2 * outline.bbox.top + via_size
           \/ 2 * point.y > 2 * outline.bbox.bottom - via_size

\* A plausible slip: no bounding-box fallback for a zone without polygon.
zone_rejects_poly_only(zone, point) ==
    zone.outline = "poly" /\ Contains(zone.poly, point)

\* One zone of is_point_in_keepout: the polygon when Outline() gives one,
\* else (no polygon, or an exception) the bounding box when it can be read.
zone_rejects(zone, point) ==
    IF zone.outline = "poly" THEN Contains(zone.poly, point)
    ELSE zone.bbox_ok /\ InBox(point, zone.bbox)

\* is_point_in_keepout
is_point_in_keepout(zones, point) ==
    \E k \in DOMAIN zones : zone_rejects(zones[k], point)

\* min_distance = pad_info['radius'] + self.via_radius + self.pad_clearance,
\* doubled.
pad_min_distance2(pad_info, via_size, pad_clearance) ==
    pad_info.radius2 + via_size + 2 * pad_clearance

\* is_point_on_pad
is_point_on_pad(idx, via_size, pad_clearance, point) ==
    LET search_radius2 == via_size + 2 * pad_clearance
        nearby_pads == get_nearby_pads(idx, point, search_radius2)
    IN  \E k \in DOMAIN nearby_pads :
            DistLtHalf([num |-> nearby_pads[k][3], den |-> 1],
                       pad_min_distance2(nearby_pads[k][2], via_size, pad_clearance))

\* "if via_net_code is not None and track_info['net_code'] == via_net_code:
\* continue"; the net code of a run is never None.
track_exempt(track_info, via_net_code) == track_info.net_code = via_net_code

\* is_point_on_track
is_point_on_track(idx, via_size, track_clearance, point, via_net_code) ==
    LET search_radius2 == via_size + 2 * track_clearance + 2 * max_track_width
        nearby_tracks == get_nearby_tracks(idx, point, search_radius2)
    IN  \E k \in DOMAIN nearby_tracks :
            /\ ~track_exempt(nearby_tracks[k], via_net_code)
            /\ DistLtHalf(point_to_segment_distance(point, nearby_tracks[k].start,
                                                    nearby_tracks[k].end),
                          via_size + nearby_tracks[k].width + 2 * track_clearance)

\* The reasons of can_place_via and of the fill run's tally, in the order
\* of skip_reasons: "off_board" (kiban-gai), "keepout" (kinshi-ryoiki-nai),
\* "pad" (pad-jo), "track" (track-jo), "via_spacing" (VIA kinsetsu).
Reasons == <<"off_board", "keepout", "pad", "track", "via_spacing">>

\* A plausible slip: the keepout test is skipped.
can_place_via_no_keepout(chk, point, via_net_code, check_board, check_keepout, check_pads, check_tracks) ==
    IF check_board /\ ~is_point_in_board(chk.board_outline, chk.via_size, point)
    THEN [ok |-> FALSE, reason |-> "off_board"]
    ELSE IF check_pads /\ is_point_on_pad(chk.pad_index, chk.via_size, chk.pad_clearance, point)
    THEN [ok |-> FALSE, reason |-> "pad"]
    ELSE IF check_tracks /\ is_point_on_track(chk.track_index, chk.via_size,
                                              chk.track_clearance, point, via_net_code)
    THEN [ok |-> FALSE, reason |-> "track"]
    ELSE [ok |-> TRUE, reason |-> "OK"]

\* A plausible slip: the trace reason is spelt unlike the key of the tally.
can_place_via_trace_reason(chk, point, via_net_code, check_board, check_keepout, check_pads, check_tracks) ==
    IF check_board /\ ~is_point_in_board(chk.board_outline, chk.via_size, point)
    THEN [ok |-> FALSE, reason |-> "off_board"]
    ELSE IF check_keepout /\ is_point_in_keepout(chk.keepout_zones, point)
    THEN [ok |-> FALSE, reason |-> "keepout"]
    ELSE IF check_pads /\ is_point_on_pad(chk.pad_index, chk.via_size, chk.pad_clearance, point)
    THEN [ok |-> FALSE, reason |-> "pad"]
    ELSE IF check_tracks /\ is_point_on_track(chk.track_index, chk.via_size,
                                              chk.track_clearance, point, via_net_code)
    THEN [ok |-> FALSE, reason |-> "trace"]
    ELSE [ok |-> TRUE, reason |-> "OK"]

\* A plausible slip: the pad check comes before the keepout check.
can_place_via_pads_first(chk, point, via_net_code, check_board, check_keepout, check_pads, check_tracks) ==
    IF check_board /\ ~is_point_in_board(chk.board_outline, chk.via_size, point)
    THEN [ok |-> FALSE, reason |-> "off_board"]
    ELSE IF check_pads /\ is_point_on_pad(chk.pad_index, chk.via_size, chk.pad_clearance, point)
    THEN [ok |-> FALSE, reason |-> "pad"]
    ELSE IF check_keepout /\ is_point_in_keepout(chk.keepout_zones, point)
    THEN [ok |-> FALSE, reason |-> "keepout"]
    ELSE IF check_tracks /\ is_point_on_track(chk.track_index, chk.via_size,
                                              chk.track_clearance, point, via_net_code)
    THEN [ok |-> FALSE, reason |-> "track"]
    ELSE [ok |-> TRUE, reason |-> "OK"]

\* A plausible slip: the pad test is skipped.
can_place_via_no_pads(chk, point, via_net_code, check_board, check_keepout, check_pads, check_tracks) ==
    IF check_board /\ ~is_point_in_board(chk.board_outline, chk.via_size, point)
    THEN [ok |-> FALSE, reason |-> "off_board"]
    ELSE IF check_keepout /\ is_point_in_keepout(chk.keepout_zones, point)
    THEN [ok |-> FALSE, reason |-> "keepout"]
    ELSE IF check_tracks /\ is_point_on_track(chk.track_index, chk.via_size,
                                              chk.track_clearance, point, via_net_code)
    THEN [ok |-> FALSE, reason |-> "track"]
    ELSE [ok |-> TRUE, reason |-> "OK"]

\* can_place_via: outline, keepout, pads, tracks, the first failure decides.
can_place_via(chk, point, via_net_code, check_board, check_keepout, check_pads, check_tracks) ==
    IF check_board /\ ~is_point_in_board(chk.board_outline, chk.via_size, point)
    THEN [ok |-> FALSE, reason |-> "off_board"]
    ELSE IF check_keepout /\ is_point_in_keepout(chk.keepout_zones, point)
    THEN [ok |-> FALSE, reason |-> "keepout"]
    ELSE IF check_pads /\ is_point_on_pad(chk.pad_index, chk.via_size, chk.pad_clearance, point)
    THEN [ok |-> FALSE, reason |-> "pad"]
    ELSE IF check_tracks /\ is_point_on_track(chk.track_index, chk.via_size,
                                              chk.track_clearance, point, via_net_code)
    THEN [ok |-> FALSE, reason |-> "track"]
    ELSE [ok |-> TRUE, reason |-> "OK"]

\* The checker object of the current state.
Checker ==
    [via_size |-> settings.via_size, pad_clearance |-> settings.pad_clearance,
     track_clearance |-> settings.track_clearance, pad_index |-> pad_index,
     track_index |-> track_index, board_outline |-> board_outline,
     keepout_zones |-> keepout_zones]

(***************************************************************************)
(* Candidate generation                                                    *)
(***************************************************************************)
\* int(v) for the fraction v = num / den, den > 0: truncation towards zero.
Trunc(num, den) == IF num >= 0 THEN num \div den ELSE -((-num) \div den)

\* The inset bounding-box test of is_point_in_zone_polygon.
InInsetBox(point, bbox, clearance) ==
    /\ bbox.left + clearance <= point.x /\ point.x <= bbox.right - clearance
    /\ bbox.top + clearance <= point.y /\ point.y <= bbox.bottom - clearance

\* A plausible slip: the polygon is not consulted, the inset bounding box
\* decides alone.
is_point_in_zone_bbox_only(point, zone, clearance) ==
    InInsetBox(point, zone.bbox, clearance)

\* is_point_in_zone_polygon: inside the polygon and the bounding box inset
\* by the clearance; the inset bounding box alone when Outline() gave
\* nothing or Contains raises.
is_point_in_zone_polygon(point, zone, clearance) ==
    IF zone.outline = "poly"
    THEN Contains(zone.poly, point) /\ InInsetBox(point, zone.bbox, clearance)
    ELSE InInsetBox(point, zone.bbox, clearance)

\* A plausible slip: the loops stop one step early ("while x + h_spacing <=
\* x_end").
GridLattice_open_end(x_start, y_start, x_end, y_end, h_spacing, v_spacing) ==
    LET nx == IF x_start <= x_end THEN (x_end - x_start) \div h_spacing ELSE 0
        ny == IF y_start <= y_end THEN (y_end - y_start) \div v_spacing ELSE 0
    IN  [k \in 1..(nx * ny) |->
            [x |-> x_start + ((k - 1) \div ny) * h_spacing,
             y |-> y_start + ((k - 1) % ny) * v_spacing]]

\* The lattice of the two while loops of the grid pattern, x outermost.
GridLattice(x_start, y_start, x_end, y_end, h_spacing, v_spacing) ==
    LET nx == IF x_start <= x_end THEN (x_end - x_start) \div h_spacing + 1 ELSE 0
        ny == IF y_start <= y_end THEN (y_end - y_start) \div v_spacing + 1 ELSE 0
    IN  [k \in 1..(nx * ny) |->
            [x |-> x_start + ((k - 1) \div ny) * h_spacing,
             y |-> y_start + ((k - 1) % ny) * v_spacing]]

\* pattern == "grid", randomize off
grid_positions(zone, h_spacing, v_spacing, h_offset, v_offset, edge_clearance) ==
    LET bbox == zone.bbox
        raw == GridLattice(bbox.left + edge_clearance + h_offset,
                           bbox.top + edge_clearance + v_offset,
                           bbox.right - edge_clearance, bbox.bottom - edge_clearance,
                           h_spacing, v_spacing)
    IN  SelectSeq(raw, LAMBDA q : is_point_in_zone_polygon(q, zone, edge_clearance))

\* The raw point of the boundary pattern at perimeter_pos = i * perimeter /
\* num_vias (t = i / num_vias), truncated by int().
boundary_point(bbox, i, num_vias, perimeter, edge_clearance) ==
    LET w == GetWidth(bbox)
        h == GetHeight(bbox)
        pp == i * perimeter          \* perimeter_pos * num_vias
    IN  IF pp < w * num_vias
        THEN [x |-> Trunc(bbox.left * num_vias + pp, num_vias),
              y |-> bbox.top + edge_clearance]
        ELSE IF pp < (w + h) * num_vias
        THEN [x |-> bbox.right - edge_clearance,
              y |-> Trunc(bbox.top * num_vias + (pp - w * num_vias), num_vias)]
        ELSE IF pp < (2 * w + h) * num_vias
        THEN [x |-> Trunc(bbox.right * num_vias - (pp - (w + h) * num_vias), num_vias),
              y |-> bbox.bottom - edge_clearance]
        ELSE [x |-> bbox.left + edge_clearance,
              y |-> Trunc(bbox.bottom * num_vias - (pp - (2 * w + h) * num_vias), num_vias)]

\* A plausible slip: the raw points are h_spacing apart, starting at 0,
\* whatever is left of the perimeter at the end.
boundary_positions_fixed_step(zone, h_spacing, edge_clearance) ==
    LET bbox == zone.bbox
        perimeter == 2 * (GetWidth(bbox) + GetHeight(bbox))
        raw == [k \in 1..CeilDiv(perimeter, h_spacing) |->
                    boundary_point(bbox, (k - 1) * h_spacing, 1, 1, edge_clearance)]
    IN  SelectSeq(raw, LAMBDA q : is_point_in_zone_polygon(q, zone, edge_clearance))

\* pattern == "boundary", randomize off
boundary_positions(zone, h_spacing, edge_clearance) ==
    LET bbox == zone.bbox
        perimeter == 2 * (GetWidth(bbox) + GetHeight(bbox))
        num_vias == Trunc(perimeter, h_spacing)
        raw == [k \in 1..num_vias |->
                    boundary_point(bbox, k - 1, num_vias, perimeter, edge_clearance)]
    IN  SelectSeq(raw, LAMBDA q : is_point_in_zone_polygon(q, zone, edge_clearance))

\* 1000 * sin of an angle of a thousandths of a radian, 0 <= a <= 3142
\* (math.sin to three decimals, by Bhaskara's approximation).
SinHalfTurn(a) ==
    LET m == a * (3142 - a)
    IN  (((16 * m) \div 100) * 1000) \div ((5 * 3142 * 3142 - 4 * m) \div 100)

\* 1000 * math.sin(theta), theta in thousandths of a radian.
SinMilli(theta_m) ==
    LET a == theta_m % 6284
    IN  IF a <= 3142 THEN SinHalfTurn(a) ELSE -SinHalfTurn(a - 3142)

\* 1000 * math.cos(theta) = 1000 * sin(theta + pi / 2)
CosMilli(theta_m) == SinMilli(theta_m + 1571)

\* The while loop of the spiral pattern from (theta, radius) on, both in
\* thousandths; acc holds the positions so far.  The result is the list, or
\* "raise" when h_spacing / radius divides by zero, or "loop" once the
\* radius is negative: theta then falls for ever and the radius with it, so
\* "radius <= max_radius" never becomes false.
RECURSIVE spiral_loop(_, _, _, _, _, _, _)
spiral_loop(zone, h_spacing, edge_clearance, max_radius2, theta_m, radius_m, acc) ==
    IF 2 * radius_m > max_radius2 * 1000 THEN [status |-> "ok", positions |-> acc]
    ELSE IF radius_m < 0 THEN [status |-> "loop", positions |-> acc]
    ELSE LET bbox == zone.bbox
             x2_m == (bbox.left + bbox.right) * 1000
                        + 2 * ((radius_m * CosMilli(theta_m)) \div 1000)
             y2_m == (bbox.top + bbox.bottom) * 1000
                        + 2 * ((radius_m * SinMilli(theta_m)) \div 1000)
             pos == [x |-> Trunc(x2_m, 2000), y |-> Trunc(y2_m, 2000)]
             acc2 == IF is_point_in_zone_polygon(pos, zone, edge_clearance)
                     THEN Append(acc, pos) ELSE acc
         IN  IF radius_m = 0 THEN [status |-> "raise", positions |-> acc2]
             ELSE LET theta2 == theta_m + (h_spacing * 1000000) \div radius_m
                  IN  spiral_loop(zone, h_spacing, edge_clearance, max_radius2, theta2,
                                  edge_clearance * 1000 + (h_spacing * theta2 * 1000) \div 6283,
                                  acc2)

\* calculate_candidate_positions with randomize off: [status, positions],
\* status "ok" when the call returns the list.
calculate_candidate_positions(zone, pattern, h_spacing, v_spacing, h_offset, v_offset, edge_clearance) ==
    IF pattern = "grid"
    THEN [status |-> "ok",
          positions |-> grid_positions(zone, h_spacing, v_spacing, h_offset, v_offset,
                                       edge_clearance)]
    ELSE IF pattern = "boundary"
    THEN [status |-> "ok", positions |-> boundary_positions(zone, h_spacing, edge_clearance)]
    ELSE IF pattern = "spiral"
    THEN spiral_loop(zone, h_spacing, edge_clearance,
                     Min(GetWidth(zone.bbox), GetHeight(zone.bbox)),
                     0, edge_clearance * 1000, <<>>)
    ELSE [status |-> "ok", positions |-> <<>>]

(***************************************************************************)
(* Specification SpecVia: a SpatialIndex of any cell size, filled by       *)
(* add_via and queried by get_nearby_vias.                                 *)
(***************************************************************************)
NoOut == [op |-> "none"]

\* The locals of a fill run before the run starts.
NoFill ==
    /\ fill_zones = <<>>
    /\ all_candidate_positions = <<>>
    /\ processed = 0
    /\ valid_positions = <<>>
    /\ skip_reasons = [r \in {} |-> 0]
    /\ created_vias = 0
    /\ i_create = 0
    /\ group = 0
    /\ messages = <<>>

\* The board, settings and checker of the specifications that use none.
NoBoard == [pads |-> <<>>, tracks |-> <<>>, zones |-> <<>>, groups |-> <<>>]
NoChecker ==
    /\ settings = [via_size |-> 0]
    /\ board = NoBoard
    /\ pad_index = NewIndex(1)
    /\ board_outline = [type |-> "None"]
    /\ keepout_zones = <<>>

InitVia ==
    /\ pc = "index"
    /\ \E g \in 1..MaxCell : spatial_index = NewIndex(g)
    /\ track_index = NewIndex(1)
    /\ added = <<>>
    /\ out = NoOut
    /\ net_code = 1
    /\ NoFill
    /\ NoChecker

\* spatial_index.add_via(pos, via); the via object is identified by its
\* insertion number.
AddVia ==
    /\ pc = "index" /\ out = NoOut
    /\ Len(added) < MaxVias
    /\ \E p \in Points :
        /\ spatial_index' = add_via(spatial_index, p, Len(added) + 1)
        /\ added' = Append(added, <<p, Len(added) + 1>>)
    /\ UNCHANGED <<pc, track_index, out, settings, board, checkerVars, fillVars>>

\* nearby = spatial_index.get_nearby_vias(pos, radius)
QueryVias ==
    /\ pc = "index" /\ out = NoOut
    /\ \E q \in Points, r \in (-1)..MaxRadius :
        out' = [op |-> "get_nearby_vias", pos |-> q, radius |-> r,
                result |-> get_nearby_vias(spatial_index, q, r)]
    /\ UNCHANGED <<pc, indexVars, settings, board, checkerVars, fillVars>>

NextVia == AddVia \/ QueryVias

SpecVia == InitVia /\ [][NextVia]_vars

\* Number of occurrences of e in the sequence s.
Count(s, e) == Cardinality({k \in DOMAIN s : s[k] = e})

\* C4: get_nearby_vias(q, r) returns exactly the inserted entries whose
\* Euclidean distance to q is <= r, each as often as it was inserted, whatever
\* the cell size (radius larger than the cell, negative coordinates included).
C4_QueryEqualsBruteForce ==
    out.op = "get_nearby_vias" =>
        /\ \A k \in DOMAIN added :
            LET e == <<added[k][1], added[k][2], DistSq(out.pos, added[k][1])>>
            IN  Count(out.result, e) =
                    (IF SqrtLeq(DistSq(out.pos, added[k][1]), out.radius) THEN 1 ELSE 0)
        /\ \A j \in DOMAIN out.result :
            \E k \in DOMAIN added :
                out.result[j] = <<added[k][1], added[k][2], DistSq(out.pos, added[k][1])>>

\* C4 witness: a query with a radius larger than the cell size finds an entry
\* at a negative coordinate in another cell and leaves out a farther entry.
C4_Witness ==
    /\ out.op = "get_nearby_vias"
    /\ out.radius > spatial_index.grid_size
    /\ Len(out.result) = 1
    /\ Len(added) = 2
    /\ out.result[1][1].x < 0
    /\ get_grid_coords(spatial_index, out.result[1][1]) # get_grid_coords(spatial_index, out.pos)

(***************************************************************************)
(* Specification SpecTrack: a TrackSpatialIndex of any cell size, filled   *)
(* by add_track and queried by get_nearby_tracks.                          *)
(***************************************************************************)
InitTrack ==
    /\ pc = "index"
    /\ spatial_index = NewIndex(1)
    /\ \E g \in 1..MaxCell : track_index = NewIndex(g)
    /\ added = <<>>
    /\ out = NoOut
    /\ net_code = 1
    /\ NoFill
    /\ NoChecker

\* track_index.add_track(track, track_info); the track object is identified
\* by its insertion number.
AddTrack ==
    /\ pc = "index" /\ out = NoOut
    /\ Len(added) < MaxTracks
    /\ \E s \in TrackStarts, e \in TrackEnds :
        LET info == [track |-> Len(added) + 1, start |-> s, end |-> e,
                     width |-> 0, net_code |-> 0]
        IN  /\ track_index' = add_track(track_index, info)
            /\ added' = Append(added, info)
    /\ UNCHANGED <<pc, spatial_index, out, settings, board, checkerVars, fillVars>>

\* nearby = track_index.get_nearby_tracks(pos, radius), radius a multiple
\* of one half.
QueryTracks ==
    /\ pc = "index" /\ out = NoOut
    /\ \E q \in Points, r2 \in 0..(2 * MaxRadius) :
        out' = [op |-> "get_nearby_tracks", pos |-> q, radius2 |-> r2,
                result |-> get_nearby_tracks(track_index, q, r2)]
    /\ UNCHANGED <<pc, indexVars, settings, board, checkerVars, fillVars>>

NextTrack == AddTrack \/ QueryTracks

SpecTrack == InitTrack /\ [][NextTrack]_vars

\* C5: get_nearby_tracks(p, r) contains every inserted segment whose true
\* point-to-segment distance to p is <= r (extra segments are allowed, a
\* missed one is not).
C5_NoTrackMissed ==
    out.op = "get_nearby_tracks" =>
        \A k \in DOMAIN added :
            DistLeqHalf(point_to_segment_distance(out.pos, added[k].start, added[k].end),
                        out.radius2)
                => \E j \in DOMAIN out.result : out.result[j] = added[k]

\* C5 witness: a segment spanning several cells lies within the radius of
\* the query point with its closest point strictly inside the segment, the
\* query point lies in none of the segment's end-point cells, and the query
\* returns the segment.
C5_Witness ==
    /\ out.op = "get_nearby_tracks"
    /\ Len(added) = 1
    /\ Len(out.result) = 1
    /\ LET t == added[1]
           d == point_to_segment_distance(out.pos, t.start, t.end)
       IN  /\ DistLeqHalf(d, out.radius2)
           /\ d.den > 1
           /\ Cardinality(get_segment_grid_cells(track_index, t.start, t.end)) >= 3
           /\ get_grid_coords(track_index, out.pos)
                \notin {get_grid_coords(track_index, t.start),
                        get_grid_coords(track_index, t.end)}

(***************************************************************************)
(* Boards and settings the specifications draw from.  Lengths are in       *)
(* units of 0.1 mm: a via of 0.6 mm is 6 wide.                             *)
(***************************************************************************)
BaseSettings ==
    [via_size |-> 6, drill_size |-> 3, h_spacing |-> 20, v_spacing |-> 20,
     edge_clearance |-> 5, h_offset |-> 0, v_offset |-> 0, pattern |-> "grid",
     randomize |-> FALSE, pad_clearance |-> 2, track_clearance |-> 2,
     via_clearance |-> 2, check_pads |-> TRUE, check_keepout |-> TRUE,
     check_board_outline |-> TRUE, check_tracks |-> TRUE,
     clear_plugin_vias |-> TRUE, group_name |-> "ViaStitching"]

\* The four check boxes of the dialog, each on or off.
FlagSettings ==
    { [BaseSettings EXCEPT !.check_board_outline = f[1], !.check_keepout = f[2],
                           !.check_pads = f[3], !.check_tracks = f[4]] :
        f \in [1..4 -> BOOLEAN] }

Zone(id, bbox, outline, poly, bbox_ok, net, is_rule_area, do_not_allow_vias) ==
    [id |-> id, bbox |-> bbox, outline |-> outline, poly |-> poly, bbox_ok |-> bbox_ok,
     net_code |-> net, is_rule_area |-> is_rule_area,
     do_not_allow_vias |-> do_not_allow_vias]

\* An L-shaped rule area inside the bounding box (20,0)-(30,12).
KeepoutPoly == {Box(20, 0, 30, 4), Box(20, 0, 24, 12)}
KeepoutZone(outline, bbox_ok) ==
    Zone("K", Box(20, 0, 30, 12), outline, KeepoutPoly, bbox_ok, 0, TRUE, TRUE)

\* The rule areas of a board: none, a via keepout whose polygon can be
\* read, one without polygon, one whose Outline() raises, one whose
\* polygon and bounding box both cannot be read, and a rule area that
\* allows vias.
KeepoutChoices ==
    { <<>>,
      <<KeepoutZone("poly", TRUE)>>,
      <<KeepoutZone("none", TRUE)>>,
      <<KeepoutZone("raise", TRUE)>>,
      <<KeepoutZone("raise", FALSE)>>,
      <<Zone("R", Box(20, 0, 30, 12), "poly", KeepoutPoly, TRUE, 0, TRUE, FALSE)>> }

\* The Edge.Cuts outline: unreadable, of zero width, of zero height, a
\* bounding box without drawings, a rectangle drawn on Edge.Cuts, and an
\* L-shaped outline drawn on Edge.Cuts.
EdgeChoices ==
    { [readable |-> FALSE, bbox |-> Box(0, 0, 40, 20), has_drawings |-> FALSE, poly |-> {}],
      [readable |-> TRUE, bbox |-> Box(0, 0, 0, 20), has_drawings |-> FALSE, poly |-> {}],
      [readable |-> TRUE, bbox |-> Box(0, 0, 40, 0), has_drawings |-> TRUE,
       poly |-> {Box(0, 0, 40, 0)}],
      [readable |-> TRUE, bbox |-> Box(0, 0, 40, 20), has_drawings |-> FALSE, poly |-> {}],
      [readable |-> TRUE, bbox |-> Box(0, 0, 40, 20), has_drawings |-> TRUE,
       poly |-> {Box(0, 0, 40, 20)}],
      [readable |-> TRUE, bbox |-> Box(0, 0, 40, 20), has_drawings |-> TRUE,
       poly |-> {Box(0, 0, 40, 10), Box(0, 0, 20, 20)}] }

Pad(id, x, y, sx, sy, net) ==
    [id |-> id, pos |-> [x |-> x, y |-> y], size |-> [x |-> sx, y |-> sy],
     net_code |-> net, readable |-> TRUE]

\* No pad, a 0.4 mm x 0.2 mm pad, and an 8 mm pad left of the board.
PadChoices ==
    { <<>>, <<Pad("P", 10, 10, 4, 2, 1)>>, <<Pad("Q", -1, 10, 80, 80, 1)>> }

Trace(id, x1, y1, x2, y2, width, net) ==
    [type |-> "trace", id |-> id, start |-> [x |-> x1, y |-> y1],
     end |-> [x |-> x2, y |-> y2], width |-> width, net_code |-> net]

Via(id, x, y, net) ==
    [type |-> "via", id |-> id, pos |-> [x |-> x, y |-> y], net_code |-> net]

\* No trace, a 0.2 mm trace of net 1 (beside two vias, which GetTracks()
\* also returns), and a 7 mm wide trace of net 1 along the left board edge.
TraceChoices ==
    { <<>>,
      <<Via("V", 2, 2, 1), Via("U", 10, 8, 2), Trace("T", 30, 14, 38, 18, 2, 1)>>,
      <<Trace("W", -1, 0, -1, 20, 70, 1)>> }

Nets == {1, 2}

\* The points can_place_via is asked about.
ProbePoints == { q \in [x : 0..40, y : {2, 8, 10, 16}] : q.x % 4 = 0 }

(***************************************************************************)
(* Specification SpecPlace: a BoardGeometryChecker built for a board, and  *)
(* can_place_via applied to a point and a via net.                         *)
(***************************************************************************)
\* BoardGeometryChecker.__init__
BuildChecker(b, st) ==
    /\ pad_index = build_pad_index(NewIndex(3 * st.via_size), b.pads)
    /\ track_index = build_track_index(NewIndex(3 * st.via_size), b.tracks)
    /\ board_outline = get_board_outline(b)
    /\ keepout_zones = get_keepout_zones(b)

InitPlace ==
    /\ pc = "checker"
    /\ settings \in FlagSettings
    /\ \E pads \in PadChoices, tracks \in TraceChoices, zones \in KeepoutChoices,
          edges \in EdgeChoices :
        board = [pads |-> pads, tracks |-> tracks, zones |-> zones, edges |-> edges,
                 groups |-> <<>>]
    /\ BuildChecker(board, settings)
    /\ spatial_index = NewIndex(1)
    /\ added = <<>>
    /\ out = NoOut
    /\ net_code = 1
    /\ NoFill

\* can_place, reason = geometry_checker.can_place_via(point, net_code, ...)
CanPlace ==
    /\ pc = "checker" /\ out = NoOut
    /\ \E q \in ProbePoints, n \in Nets :
        out' = [op |-> "can_place_via", point |-> q, via_net_code |-> n,
                result |-> can_place_via(Checker, q, n, settings.check_board_outline,
                                         settings.check_keepout, settings.check_pads,
                                         settings.check_tracks)]
    /\ UNCHANGED <<pc, indexVars, settings, board, checkerVars, fillVars>>

NextPlace == CanPlace

SpecPlace == InitPlace /\ [][NextPlace]_vars

\* C2: can_place_via accepts iff every enabled check passes: (outline check
\* off or point in board) and (keepout check off or point in no keepout) and
\* (pad check off or no pad collision) and (track check off or no track
\* collision).
C2_ConjunctiveAcceptance ==
    out.op = "can_place_via" =>
        (out.result.ok <=>
            /\ ~settings.check_board_outline
                \/ is_point_in_board(board_outline, settings.via_size, out.point)
            /\ ~settings.check_keepout
                \/ ~is_point_in_keepout(keepout_zones, out.point)
            /\ ~settings.check_pads
                \/ ~is_point_on_pad(pad_index, settings.via_size, settings.pad_clearance,
                                    out.point)
            /\ ~settings.check_tracks
                \/ ~is_point_on_track(track_index, settings.via_size,
                                      settings.track_clearance, out.point, out.via_net_code))

\* C2 witness: with all four checks on, a point inside a keepout that passes
\* the three other checks is rejected.
C2_Witness ==
    /\ out.op = "can_place_via"
    /\ settings.check_board_outline /\ settings.check_keepout
    /\ settings.check_pads /\ settings.check_tracks
    /\ board_outline.type # "None" /\ board.pads # <<>> /\ board.tracks # <<>>
    /\ ~out.result.ok
    /\ is_point_in_board(board_outline, settings.via_size, out.point)
    /\ is_point_in_keepout(keepout_zones, out.point)
    /\ ~is_point_on_pad(pad_index, settings.via_size, settings.pad_clearance, out.point)
    /\ ~is_point_on_track(track_index, settings.via_size, settings.track_clearance,
                          out.point, out.via_net_code)

\* The traces of the board (GetTracks() items of type PCB_TRACE_T).
BoardTraces == { board.tracks[k] : k \in { j \in DOMAIN board.tracks :
                                             board.tracks[j].type = "trace" } }

\* The point is closer to the trace's centre line than
\* viaRadius + halfWidth + trackClearance.
WithinTraceClearance(point, t) ==
    DistLtHalf(point_to_segment_distance(point, t.start, t.end),
               settings.via_size + t.width + 2 * settings.track_clearance)

\* The outline, keepout and pad checks of the current settings pass at point.
OtherChecksPass(point) ==
    /\ ~settings.check_board_outline
        \/ is_point_in_board(board_outline, settings.via_size, point)
    /\ ~settings.check_keepout \/ ~is_point_in_keepout(keepout_zones, point)
    /\ ~settings.check_pads
        \/ ~is_point_on_pad(pad_index, settings.via_size, settings.pad_clearance, point)

\* C6: a point within viaRadius + halfWidth + trackClearance of a trace of
\* the via's own net is accepted when nothing else is violated, and the same
\* point with the trace on another net is rejected with the trace reason.
C6_SameNetExemption ==
    (out.op = "can_place_via" /\ settings.check_tracks) =>
        \A t \in BoardTraces :
            (WithinTraceClearance(out.point, t) /\ OtherChecksPass(out.point)) =>
                IF t.net_code = out.via_net_code
                THEN (\A u \in BoardTraces \ {t} :
                        u.net_code = out.via_net_code \/ ~WithinTraceClearance(out.point, u))
                     => out.result.ok
                ELSE out.result = [ok |-> FALSE, reason |-> "track"]

(***************************************************************************)
(* Specification SpecGen: calculate_candidate_positions applied to a zone  *)
(* and settings that pass validation (positive spacings).                  *)
(***************************************************************************)
\* The 10 mm x 10 mm square zone, a small L-shaped zone, a small zone
\* without polygon and a zone at negative coordinates whose Outline() raises.
ZoneA == Zone("A", Box(0, 0, 100, 100), "poly", {Box(0, 0, 100, 100)}, TRUE, 1, FALSE, FALSE)
ZoneB == Zone("B", Box(0, 0, 30, 20), "poly", {Box(0, 0, 30, 10), Box(0, 0, 16, 20)},
              TRUE, 1, FALSE, FALSE)
ZoneC == Zone("C", Box(10, 0, 40, 20), "none", {}, TRUE, 1, FALSE, FALSE)
ZoneD == Zone("D", Box(-33, -21, 0, 0), "raise", {}, TRUE, 1, FALSE, FALSE)

Patterns == {"grid", "boundary", "spiral"}

GenSettings ==
    { [BaseSettings EXCEPT !.pattern = pt, !.h_spacing = sp[1], !.v_spacing = sp[2],
                           !.edge_clearance = ec, !.h_offset = off, !.v_offset = off] :
        pt \in Patterns, sp \in {<<20, 20>>, <<7, 5>>, <<5, 7>>}, ec \in {0, 5},
        off \in {0, 3} }

\* The 10 mm zone is filled at 2 mm spacing, the small zones at any spacing.
GenZones(st) ==
    IF st.h_spacing = 20 THEN {ZoneA, ZoneB, ZoneC, ZoneD} ELSE {ZoneB, ZoneC, ZoneD}

InitGen ==
    /\ pc = "generate"
    /\ settings \in GenSettings
    /\ \E z \in GenZones(settings) :
        board = [pads |-> <<>>, tracks |-> <<>>, zones |-> <<z>>,
                 edges |-> [readable |-> FALSE, bbox |-> Box(0, 0, 0, 0),
                            has_drawings |-> FALSE, poly |-> {}],
                 groups |-> <<>>]
    /\ BuildChecker(board, settings)
    /\ spatial_index = NewIndex(1)
    /\ added = <<>>
    /\ out = NoOut
    /\ net_code = 1
    /\ NoFill

\* positions = self.calculate_candidate_positions(zone, pattern, ...)
Generate ==
    /\ pc = "generate" /\ out = NoOut
    /\ out' = [op |-> "calculate_candidate_positions",
               result |-> calculate_candidate_positions(
                              board.zones[1], settings.pattern, settings.h_spacing,
                              settings.v_spacing, settings.h_offset, settings.v_offset,
                              settings.edge_clearance)]
    /\ UNCHANGED <<pc, indexVars, settings, board, checkerVars, fillVars>>

NextGen == Generate

SpecGen == InitGen /\ [][NextGen]_vars

\* C10: for every zone and every settings value with positive spacings
\* (edge clearance 0 included) calculate_candidate_positions returns a
\* finite list for each of the three patterns, without raising.
C10_GeneratorReturns ==
    out.op = "calculate_candidate_positions" => out.result.status = "ok"

(***************************************************************************)
(* Specification Spec: Run with the fill action, i.e. the zone selection   *)
(* and fill_zones_with_vias_optimized: indices, candidates of all target   *)
(* zones, the filter loop, the group and the creation loop, with the       *)
(* progress checkpoints at which the user can cancel.                      *)
(***************************************************************************)
ReasonSet == { Reasons[k] : k \in DOMAIN Reasons }

\* Run: the selected zones.  board.Zones() gives the selected zones that are
\* not rule areas; when it raises, board.GetSelection() gives the selected
\* items that are zones; when that raises too, board.GetArea(i) gives the
\* selected areas; when all three raise, nothing.  api.zones_api names the
\* first of the three that works on the host.
selected_zones(b) ==
    IF b.api.zones_api = "Zones"
    THEN SelectSeq(b.zones, LAMBDA z : z.id \in b.selection /\ ~z.is_rule_area)
    ELSE IF b.api.zones_api \in {"GetSelection", "GetArea"}
    THEN SelectSeq(b.zones, LAMBDA z : z.id \in b.selection)
    ELSE <<>>

\* A plausible slip: the via index starts empty, the vias of the board are
\* not registered.
index_no_existing_vias(idx, items) == idx

\* "for item in board.GetTracks(): if item.Type() == PCB_VIA_T:
\*  spatial_index.add_via(pos, item)"
RECURSIVE index_existing_vias(_, _)
index_existing_vias(idx, items) ==
    IF items = <<>> THEN idx
    ELSE LET item == Head(items)
         IN  index_existing_vias(IF item.type = "via" THEN add_via(idx, item.pos, item.id)
                                 ELSE idx,
                                 Tail(items))

\* "for zone in zones: positions = self.calculate_candidate_positions(...);
\*  all_candidate_positions.extend(positions)"; an exception of one call
\* ends the loop.
\* A plausible slip: a position another zone already gave is dropped.
RECURSIVE collect_candidates_dedup(_, _, _)
collect_candidates_dedup(zones, st, acc) ==
    IF zones = <<>> THEN [status |-> "ok", positions |-> acc]
    ELSE LET r == calculate_candidate_positions(Head(zones), st.pattern, st.h_spacing,
                                                st.v_spacing, st.h_offset, st.v_offset,
                                                st.edge_clearance)
             fresh(q) == \A k \in DOMAIN acc : acc[k] # q
         IN  IF r.status # "ok" THEN [status |-> r.status, positions |-> acc]
             ELSE collect_candidates_dedup(Tail(zones), st,
                                           acc \o SelectSeq(r.positions, fresh))

RECURSIVE collect_candidates(_, _, _)
collect_candidates(zones, st, acc) ==
    IF zones = <<>> THEN [status |-> "ok", positions |-> acc]
    ELSE LET r == calculate_candidate_positions(Head(zones), st.pattern, st.h_spacing,
                                                st.v_spacing, st.h_offset, st.v_offset,
                                                st.edge_clearance)
         IN  IF r.status # "ok" THEN [status |-> r.status, positions |-> acc]
             ELSE collect_candidates(Tail(zones), st, acc \o r.positions)

\* check_drc_fast: no indexed via within via_size + via_clearance.
check_drc_fast(pos, via_size, via_clearance, idx) ==
    Len(get_nearby_vias(idx, pos, via_size + via_clearance)) = 0

\* The via object made by ViaStitchingPlugin.add_via.
NewVia(pos, net, via_size, drill_size, serial) ==
    [type |-> "via", id |-> "N", pos |-> pos, net_code |-> net, width |-> via_size,
     drill |-> drill_size, serial |-> serial]

\* The message boxes.
Message(kind) == [kind |-> kind]
ResultMessage(kind, n, tally) == [kind |-> kind, created_vias |-> n, skip_reasons |-> tally]

\* The 10 mm x 10 mm scenario: the square zone alone, filled with the base
\* settings (grid, 2 mm spacing, 0.5 mm edge clearance), with or without a
\* pad of radius 1 mm at (4.5 mm, 4.5 mm), on a board without outline or
\* with the outline of the zone; the host may fail to make a group or a via.
CentrePad == Pad("C", 45, 45, 20, 20, 2)
SquareBoards ==
    { [pads |-> pads, tracks |-> <<>>, zones |-> <<ZoneA>>, edges |-> edges,
       groups |-> <<>>, selection |-> {"A"}, api |-> api] :
        pads \in {<<>>, <<CentrePad>>},
        edges \in { [readable |-> FALSE, bbox |-> Box(0, 0, 0, 0), has_drawings |-> FALSE,
                     poly |-> {}],
                    [readable |-> TRUE, bbox |-> Box(0, 0, 100, 100), has_drawings |-> TRUE,
                     poly |-> {Box(0, 0, 100, 100)}] },
        api \in { [group_ok |-> TRUE, via_ok |-> TRUE, zones_api |-> "Zones"],
                  [group_ok |-> FALSE, via_ok |-> TRUE, zones_api |-> "Zones"],
                  [group_ok |-> TRUE, via_ok |-> FALSE, zones_api |-> "Zones"] } }

\* Small boards: one or two (overlapping) small target zones, every rule
\* area choice, pads, traces and an existing via, with or without outline.
SmallTargets == { <<ZoneB>>, <<ZoneB, ZoneC>>, <<ZoneD>> }
SmallBoards ==
    { [pads |-> pads, tracks |-> tracks, zones |-> targets \o keepouts, edges |-> edges,
       groups |-> <<>>, selection |-> {"B", "C", "D", "K", "R"},
       api |-> [group_ok |-> TRUE, via_ok |-> TRUE, zones_api |-> "Zones"]] :
        targets \in SmallTargets, keepouts \in KeepoutChoices,
        pads \in {<<>>, <<Pad("P", 10, 10, 4, 2, 1)>>}, tracks \in TraceChoices,
        edges \in { [readable |-> FALSE, bbox |-> Box(0, 0, 40, 20), has_drawings |-> FALSE,
                     poly |-> {}],
                    [readable |-> TRUE, bbox |-> Box(0, 0, 40, 20), has_drawings |-> TRUE,
                     poly |-> {Box(0, 0, 40, 20)}] } }

\* A board on which only a rule area is selected.
RuleAreaBoard ==
    [pads |-> <<>>, tracks |-> <<>>, zones |-> <<ZoneB, KeepoutZone("poly", TRUE)>>,
     edges |-> [readable |-> FALSE, bbox |-> Box(0, 0, 40, 20), has_drawings |-> FALSE,
                poly |-> {}],
     groups |-> <<>>, selection |-> {"K"},
     api |-> [group_ok |-> TRUE, via_ok |-> TRUE, zones_api |-> "Zones"]]

\* Boards with a small target zone and a rule area (a via keepout, or a rule
\* area that allows vias), both selected or the rule area alone, on hosts
\* where Run collects the zones in each of its ways.
SelectionBoards ==
    { [RuleAreaBoard EXCEPT !.zones = <<ZoneB, ra>>, !.selection = sel,
                            !.api.zones_api = api] :
        ra \in { KeepoutZone("poly", TRUE),
                 Zone("R", Box(20, 0, 30, 12), "poly", KeepoutPoly, TRUE, 0, TRUE, FALSE) },
        sel \in { {"B", "K", "R"}, {"K", "R"} },
        api \in { "Zones", "GetSelection", "GetArea", "none" } }

\* The dialog settings used on the small boards: every pattern, spacings
\* below and above via_size + via_clearance, edge clearance 0 or 0.5 mm,
\* all checks on, the keepout check off, all checks off.
SmallSettings ==
    { [BaseSettings EXCEPT !.pattern = pt, !.h_spacing = sp[1], !.v_spacing = sp[2],
                           !.edge_clearance = ec, !.check_board_outline = f[1],
                           !.check_keepout = f[2], !.check_pads = f[3],
                           !.check_tracks = f[4]] :
        pt \in Patterns, sp \in {<<7, 5>>, <<10, 10>>}, ec \in {0, 5},
        f \in { <<TRUE, TRUE, TRUE, TRUE>>, <<TRUE, FALSE, TRUE, TRUE>>,
                <<FALSE, FALSE, FALSE, FALSE>> } }

Init ==
    /\ pc = "idle"
    /\ \/ settings = BaseSettings /\ board \in SquareBoards /\ net_code = 1
       \/ settings \in SmallSettings /\ board \in SmallBoards /\ net_code = 2
       \/ settings = BaseSettings /\ board = RuleAreaBoard /\ net_code = 1
       \/ /\ settings \in { st \in SmallSettings : /\ st.pattern = "grid"
                                                   /\ st.h_spacing = 7
                                                   /\ st.edge_clearance = 0 }
          /\ board \in SelectionBoards
          /\ net_code = 2
    /\ spatial_index = NewIndex(1)
    /\ track_index = NewIndex(1)
    /\ pad_index = NewIndex(1)
    /\ board_outline = [type |-> "None"]
    /\ keepout_zones = <<>>
    /\ added = <<>>
    /\ out = NoOut
    /\ NoFill

\* Run collects the selected zones; without any it shows an error.  Else
\* fill_zones_with_vias_optimized starts: the via index with the board's
\* vias, the geometry checker, and the candidates of all target zones.  An
\* exception of the generator reaches Run's handler; without candidates the
\* run ends with a message.
FillBegin ==
    /\ pc = "idle"
    /\ LET zones == selected_zones(board)
           cand == collect_candidates(zones, settings, <<>>)
       IN  /\ fill_zones' = zones
           /\ IF zones = <<>>
              THEN /\ messages' = Append(messages, Message("select_zone"))
                   /\ pc' = "done"
                   /\ UNCHANGED <<spatial_index, track_index, checkerVars,
                                  all_candidate_positions, skip_reasons>>
              ELSE /\ spatial_index' = index_existing_vias(
                                           NewIndex((3 * settings.via_size) \div 2), board.tracks)
                   /\ pad_index' = build_pad_index(NewIndex(3 * settings.via_size), board.pads)
                   /\ track_index' = build_track_index(NewIndex(3 * settings.via_size),
                                                       board.tracks)
                   /\ board_outline' = get_board_outline(board)
                   /\ keepout_zones' = get_keepout_zones(board)
                   /\ cand.status # "loop"
                   /\ IF cand.status = "raise"
                      THEN /\ messages' = Append(messages, Message("error"))
                           /\ pc' = "done"
                           /\ UNCHANGED <<all_candidate_positions, skip_reasons>>
                      ELSE IF Len(cand.positions) = 0
                      THEN /\ messages' = Append(messages, Message("no_positions"))
                           /\ pc' = "done"
                           /\ UNCHANGED <<all_candidate_positions, skip_reasons>>
                      ELSE /\ all_candidate_positions' = cand.positions
                           /\ skip_reasons' = [r \in ReasonSet |-> 0]
                           /\ pc' = "filter"
                           /\ UNCHANGED messages
    /\ UNCHANGED <<added, out, settings, board, net_code, processed, valid_positions,
                   created_vias, i_create, group>>

\* One iteration of the filter loop, the user not cancelling at the
\* checkpoint: can_place_via, then check_drc_fast; the position is counted
\* under its reason or appended to valid_positions.
FilterStep ==
    /\ pc = "filter"
    /\ processed < Len(all_candidate_positions)
    /\ LET pos == all_candidate_positions[processed + 1]
           r == can_place_via(Checker, pos, net_code, settings.check_board_outline,
                              settings.check_keepout, settings.check_pads,
                              settings.check_tracks)
       IN  IF ~r.ok
           THEN /\ skip_reasons' = IF r.reason \in DOMAIN skip_reasons
                                   THEN [skip_reasons EXCEPT ![r.reason] = @ + 1]
                                   ELSE skip_reasons
                /\ UNCHANGED valid_positions
           ELSE IF ~check_drc_fast(pos, settings.via_size, settings.via_clearance,
                                   spatial_index)
           THEN /\ skip_reasons' = [skip_reasons EXCEPT !["via_spacing"] = @ + 1]
                /\ UNCHANGED valid_positions
           ELSE /\ valid_positions' = Append(valid_positions, pos)
                /\ UNCHANGED skip_reasons
    /\ processed' = processed + 1
    /\ UNCHANGED <<pc, indexVars, out, settings, board, checkerVars, net_code,
                   fill_zones, all_candidate_positions, created_vias, i_create, group,
                   messages>>

\* "if processed % 10 == 0: cont, skip = progress_dlg.Update(...);
\*  if not cont: wx.MessageBox(cancelled); return"
FilterCancel ==
    /\ pc = "filter"
    /\ processed < Len(all_candidate_positions)
    /\ processed % 10 = 0
    /\ messages' = Append(messages, Message("cancelled"))
    /\ pc' = "done"
    /\ UNCHANGED <<indexVars, out, settings, board, checkerVars, net_code, fill_zones,
                   all_candidate_positions, processed, valid_positions, skip_reasons,
                   created_vias, i_create, group>>

\* f"{group_name}_{datetime.now().strftime('%Y%m%d_%H%M%S')}": a name is a
\* sequence of pieces of text, the configured name first, then the stamp.
GroupName(group_name) == <<group_name, "_", "stamp">>

\* A plausible slip: the group is made before the accepted positions are
\* counted.
FilterEnd_group_first ==
    /\ pc = "filter"
    /\ processed = Len(all_candidate_positions)
    /\ IF board.api.group_ok
       THEN /\ board' = [board EXCEPT !.groups =
                            Append(@, [name |-> GroupName(settings.group_name), items |-> <<>>])]
            /\ group' = Len(board.groups) + 1
       ELSE UNCHANGED <<board, group>>
    /\ IF Len(valid_positions) = 0
       THEN /\ messages' = Append(messages, ResultMessage("no_valid", 0, skip_reasons))
            /\ pc' = "done"
       ELSE /\ pc' = "create"
            /\ UNCHANGED messages
    /\ UNCHANGED <<indexVars, out, settings, checkerVars, net_code, fill_zones,
                   all_candidate_positions, processed, valid_positions, skip_reasons,
                   created_vias, i_create>>

\* The filter loop is over: without a valid position the run ends with the
\* tally; else the group is made (an exception leaves group = None).
FilterEnd ==
    /\ pc = "filter"
    /\ processed = Len(all_candidate_positions)
    /\ IF Len(valid_positions) = 0
       THEN /\ messages' = Append(messages, ResultMessage("no_valid", 0, skip_reasons))
            /\ pc' = "done"
            /\ UNCHANGED <<board, group>>
       ELSE /\ IF board.api.group_ok
               THEN /\ board' = [board EXCEPT !.groups =
                                    Append(@, [name |-> GroupName(settings.group_name), items |-> <<>>])]
                    /\ group' = Len(board.groups) + 1
               ELSE UNCHANGED <<board, group>>
            /\ pc' = "create"
            /\ UNCHANGED messages
    /\ UNCHANGED <<indexVars, out, settings, checkerVars, net_code, fill_zones,
                   all_candidate_positions, processed, valid_positions, skip_reasons,
                   created_vias, i_create>>

\* One iteration of the creation loop, the user not cancelling: add_via puts
\* the via on the board (or fails and returns None); a created via enters
\* the via index and the group.
CreateStep ==
    /\ pc = "create"
    /\ i_create < Len(valid_positions)
    /\ LET pos == valid_positions[i_create + 1]
           via == NewVia(pos, net_code, settings.via_size, settings.drill_size,
                         created_vias + 1)
       IN  IF board.api.via_ok
           THEN /\ board' = [board EXCEPT
                                !.tracks = Append(@, via),
                                !.groups = IF group = 0 THEN @
                                           ELSE [@ EXCEPT ![group].items = Append(@, via)]]
                /\ spatial_index' = add_via(spatial_index, pos, via.id)
                /\ created_vias' = created_vias + 1
           ELSE UNCHANGED <<board, spatial_index, created_vias>>
    /\ i_create' = i_create + 1
    /\ UNCHANGED <<pc, track_index, added, out, settings, checkerVars, net_code,
                   fill_zones, all_candidate_positions, processed, valid_positions,
                   skip_reasons, group, messages>>

\* "if i % 5 == 0: ... if not cont: wx.MessageBox(n vias placed, interrupted);
\*  break", then the result message after the loop.
CreateCancel ==
    /\ pc = "create"
    /\ i_create < Len(valid_positions)
    /\ i_create % 5 = 0
    /\ messages' = messages \o <<[kind |-> "interrupted", created_vias |-> created_vias],
                                 ResultMessage("completed", created_vias, skip_reasons)>>
    /\ pc' = "done"
    /\ UNCHANGED <<indexVars, out, settings, board, checkerVars, net_code, fill_zones,
                   all_candidate_positions, processed, valid_positions, skip_reasons,
                   created_vias, i_create, group>>

\* The creation loop is over: the result message.
CreateEnd ==
    /\ pc = "create"
    /\ i_create = Len(valid_positions)
    /\ messages' = Append(messages, ResultMessage("completed", created_vias, skip_reasons))
    /\ pc' = "done"
    /\ UNCHANGED <<indexVars, out, settings, board, checkerVars, net_code, fill_zones,
                   all_candidate_positions, processed, valid_positions, skip_reasons,
                   created_vias, i_create, group>>

Next ==
    \/ FillBegin
    \/ FilterStep
    \/ FilterCancel
    \/ FilterEnd
    \/ CreateStep
    \/ CreateCancel
    \/ CreateEnd

Spec == Init /\ [][Next]_vars

\* The minimum centre distance of two vias: via_size + via_clearance.
ViaMinDistance == settings.via_size + settings.via_clearance

\* C1: any two distinct vias accepted in one fill run have centre distance
\* of at least viaDiameter + viaToViaClearance.
C1_AcceptedViasApart ==
    \A j, k \in DOMAIN valid_positions :
        j # k => ~SqrtLt(DistSq(valid_positions[j], valid_positions[k]), ViaMinDistance)

\* The user cancelled the run at a checkpoint of the filter loop / of the
\* creation loop.
CancelledInFilter == \E k \in DOMAIN messages : messages[k].kind = "cancelled"
CancelledInCreate == \E k \in DOMAIN messages : messages[k].kind = "interrupted"

\* The vias the run has put on the board.
RunVias == SelectSeq(board.tracks, LAMBDA t : t.type = "via" /\ t.id = "N")

\* C3: a run cancelled at a progress checkpoint ends with the vias accepted
\* so far and the rejection tally as its result: every position accepted
\* before a cancel of the filter loop is a via on the board, a tally with a
\* rejection in it is reported by the last message, and the board holds
\* exactly the vias counted as created (none partially made).
C3_CancelKeepsPartialResult ==
    (pc = "done" /\ (CancelledInFilter \/ CancelledInCreate)) =>
        LET m == messages[Len(messages)]
        IN  /\ CancelledInFilter =>
                [k \in DOMAIN RunVias |-> RunVias[k].pos] = valid_positions
            /\ (\E r \in ReasonSet : skip_reasons[r] > 0) =>
                (m.kind = "completed" /\ m.skip_reasons = skip_reasons)
            /\ Len(RunVias) = created_vias

\* The via keepouts of the board: rule areas that do not allow vias.
BoardKeepouts ==
    { board.zones[k] : k \in { j \in DOMAIN board.zones :
                                 board.zones[j].is_rule_area
                                 /\ board.zones[j].do_not_allow_vias } }

\* The point lies inside the polygon of a via keepout of the board.
InsideKeepout(point) == \E z \in BoardKeepouts : Contains(z.poly, point)

\* The same, for the keepouts whose polygon or bounding box can be read.
InsideReadableKeepout(point) ==
    \E z \in BoardKeepouts :
        (z.outline = "poly" \/ z.bbox_ok) /\ Contains(z.poly, point)

FilterFinished ==
    /\ pc \in {"filter", "create", "done"}
    /\ Len(all_candidate_positions) > 0
    /\ processed = Len(all_candidate_positions)

\* The end-to-end scenario: the 10 mm square zone alone, no traces and no
\* vias but the run's own, grid pattern at 2 mm, edge clearance 0.5 mm,
\* zero offsets, no randomization.
SquareScenario ==
    /\ board.zones = <<ZoneA>>
    /\ \A k \in DOMAIN board.tracks : board.tracks[k].id = "N"
    /\ settings = BaseSettings

\* The points of a sequence of positions.
PointsOf(positions) == { positions[k] : k \in DOMAIN positions }

\* C8 as stated: the scenario without pads accepts exactly a 4 x 4 lattice
\* (16 points) and every rejection count is zero.
C8_FourByFourLattice ==
    (SquareScenario /\ board.pads = <<>> /\ FilterFinished) =>
        /\ Len(valid_positions) = 16
        /\ \A r \in ReasonSet : skip_reasons[r] = 0

\* C8 amended: the scenario without pads accepts exactly the 5 x 5 lattice
\* x, y in {0.5, 2.5, 4.5, 6.5, 8.5} mm (25 points), each once, and every
\* rejection count is zero.
C8_FiveByFiveLattice ==
    (SquareScenario /\ board.pads = <<>> /\ FilterFinished) =>
        /\ Len(valid_positions) = 25
        /\ PointsOf(valid_positions) = [x : {5, 25, 45, 65, 85}, y : {5, 25, 45, 65, 85}]
        /\ \A r \in ReasonSet : skip_reasons[r] = 0

\* C8 witness: the scenario without pads, run to its end with 25 vias made.
C8_Witness ==
    /\ SquareScenario /\ board.pads = <<>>
    /\ pc = "done" /\ created_vias = 25
    /\ messages = <<ResultMessage("completed", 25, [r \in ReasonSet |-> 0])>>

\* The pad scenario: the same with one pad of radius 1 mm at the lattice
\* centre (4.5 mm, 4.5 mm), pad clearance 0.2 mm, via radius 0.3 mm.
PadScenario ==
    /\ SquareScenario
    /\ board.pads = <<CentrePad>>
    /\ settings.pad_clearance = 2 /\ settings.via_size = 6 /\ settings.check_pads

\* C9 as stated: exactly the candidate at the centre is rejected, for the
\* pad reason, and exactly 15 other candidates are accepted.
C9_FifteenAccepted ==
    (PadScenario /\ FilterFinished) =>
        /\ skip_reasons = [r \in ReasonSet |-> IF r = "pad" THEN 1 ELSE 0]
        /\ CentrePad.pos \notin PointsOf(valid_positions)
        /\ Len(valid_positions) = 15

\* C9 amended: exactly the candidate at the centre is rejected, for the pad
\* reason, and exactly the 24 other candidates of the 5 x 5 lattice are
\* accepted.
C9_TwentyFourAccepted ==
    (PadScenario /\ FilterFinished) =>
        /\ skip_reasons = [r \in ReasonSet |-> IF r = "pad" THEN 1 ELSE 0]
        /\ CentrePad.pos \notin PointsOf(valid_positions)
        /\ Len(valid_positions) = 24
        /\ PointsOf(valid_positions) =
               [x : {5, 25, 45, 65, 85}, y : {5, 25, 45, 65, 85}] \ {CentrePad.pos}

\* C9 witness: the pad scenario, run to its end with 24 vias made and one
\* candidate counted under the pad reason.
C9_Witness ==
    /\ PadScenario
    /\ pc = "done" /\ created_vias = 24
    /\ skip_reasons["pad"] = 1
    /\ CentrePad.pos \in PointsOf(all_candidate_positions)

(***************************************************************************)
(* Specification SpecDialog: the OK handler of the settings dialog, in the *)
(* plugin (via_stitcher_v2.py) and in the first variant                    *)
(* (via_stitcher_improved.py).  The entries are what the user typed;       *)
(* numeric is FALSE when some text field does not parse as a number.       *)
(***************************************************************************)
DialogEntries ==
    [via_size : {-6, 0, 6}, drill_size : {0, 3, 6}, h_spacing : {-20, 0, 20},
     v_spacing : {0, 20}, numeric : BOOLEAN]

\* ViaStitchingDialog.on_ok: the texts are parsed by float(); a ValueError
\* shows a message and leaves the dialog open, else the settings are saved
\* and the dialog ends with ID_OK.
on_ok_v2(entries) == IF ~entries.numeric THEN "open" ELSE "ID_OK"

\* ViaStitcherDialog.on_ok of the first variant: after parsing, values that
\* are not positive or a drill not below the via size show a message and
\* return; else event.Skip() closes the dialog with ID_OK.
on_ok_improved(entries) ==
    IF ~entries.numeric THEN "open"
    ELSE IF entries.via_size <= 0 \/ entries.drill_size <= 0 \/ entries.h_spacing <= 0
    THEN "open"
    ELSE IF entries.drill_size >= entries.via_size THEN "open"
    ELSE "ID_OK"

InitDialog ==
    /\ pc \in {"v2.dialog", "improved.dialog"}
    /\ settings \in DialogEntries
    /\ pc = "improved.dialog" => settings.v_spacing = settings.h_spacing
    /\ board = NoBoard
    /\ spatial_index = NewIndex(1)
    /\ track_index = NewIndex(1)
    /\ pad_index = NewIndex(1)
    /\ board_outline = [type |-> "None"]
    /\ keepout_zones = <<>>
    /\ added = <<>>
    /\ out = NoOut
    /\ net_code = 1
    /\ NoFill

\* The user presses OK in the plugin's dialog; with ID_OK Run goes on to
\* fill_zones_with_vias_optimized.
OnOkV2 ==
    /\ pc = "v2.dialog" /\ out = NoOut
    /\ out' = [op |-> "on_ok", result |-> on_ok_v2(settings)]
    /\ pc' = IF on_ok_v2(settings) = "ID_OK" THEN "v2.fill" ELSE pc
    /\ UNCHANGED <<indexVars, settings, board, checkerVars, fillVars>>

\* The user presses OK in the first variant's dialog; with ID_OK Run goes on
\* to place_vias_in_zone.
OnOkImproved ==
    /\ pc = "improved.dialog" /\ out = NoOut
    /\ out' = [op |-> "on_ok", result |-> on_ok_improved(settings)]
    /\ pc' = IF on_ok_improved(settings) = "ID_OK" THEN "improved.fill" ELSE pc
    /\ UNCHANGED <<indexVars, settings, board, checkerVars, fillVars>>

NextDialog == OnOkV2 \/ OnOkImproved

SpecDialog == InitDialog /\ [][NextDialog]_vars

\* Settings the fill must not start with.
InvalidSettings(st) ==
    \/ st.via_size <= 0
    \/ st.drill_size >= st.via_size
    \/ st.h_spacing <= 0
    \/ st.v_spacing <= 0

\* C11: in both plugin variants, settings with a non-positive via diameter,
\* a drill not below the diameter or a non-positive spacing are rejected by
\* the OK handler: the dialog does not end with ID_OK and no fill starts.
C11_InvalidSettingsRejected ==
    (out.op = "on_ok" /\ InvalidSettings(settings)) =>
        (out.result # "ID_OK" /\ pc \notin {"v2.fill", "improved.fill"})

(***************************************************************************)
(* Specification SpecTwice: calculate_candidate_positions called twice     *)
(* with the same zone and settings, randomize on or off.  A call with      *)
(* randomize on draws from random.uniform; the draws of one call are       *)
(* modelled by rnd = [u1, u2, w]: u1 and u2 are the positions of two       *)
(* symmetric draws in their interval (-1 the lower end, 0 the middle, 1    *)
(* the upper end), w that of a draw from an interval starting at 0.        *)
(***************************************************************************)
RandomDraws == [u1 : {-1, 0, 1}, u2 : {-1, 0, 1}, w : {0, 1}]

\* A plausible slip: the jitter is applied whatever the randomize flag says.
randomize_always(randomize) == TRUE

\* "if randomize:" in the three pattern loops.
randomize_on(randomize) == randomize

\* pattern == "grid", randomize on: random.uniform(-h_spacing * 0.2,
\* h_spacing * 0.2) is added to x, the same with v_spacing to y, before
\* int() and the zone test.
grid_positions_random(zone, h_spacing, v_spacing, h_offset, v_offset, edge_clearance, rnd) ==
    LET bbox == zone.bbox
        raw == GridLattice(bbox.left + edge_clearance + h_offset,
                           bbox.top + edge_clearance + v_offset,
                           bbox.right - edge_clearance, bbox.bottom - edge_clearance,
                           h_spacing, v_spacing)
        jit == [k \in DOMAIN raw |->
                   [x |-> Trunc(10 * raw[k].x + 2 * rnd.u1 * h_spacing, 10),
                    y |-> Trunc(10 * raw[k].y + 2 * rnd.u2 * v_spacing, 10)]]
    IN  SelectSeq(jit, LAMBDA q : is_point_in_zone_polygon(q, zone, edge_clearance))

\* The point of the boundary pattern at step i with randomize on:
\* rand_dist = uniform(0, spacing * 0.2) moves the point inwards,
\* uniform(-spacing * 0.1, spacing * 0.1) along the edge; on the first and
\* the last edge "x += lateral; y += rand_dist", on the two others
\* "x -= rand_dist; y += lateral"; then int().  Tenths of num_vias-ths are
\* kept exact until the truncation.
boundary_point_random(bbox, i, num_vias, perimeter, edge_clearance, spacing, rnd) ==
    LET w == GetWidth(bbox)
        h == GetHeight(bbox)
        pp == i * perimeter
        n10 == 10 * num_vias
        rand_dist == 2 * rnd.w * spacing * num_vias
        lateral == rnd.u1 * spacing * num_vias
    IN  IF pp < w * num_vias
        THEN [x |-> Trunc(10 * (bbox.left * num_vias + pp) + lateral, n10),
              y |-> Trunc(n10 * (bbox.top + edge_clearance) + rand_dist, n10)]
        ELSE IF pp < (w + h) * num_vias
        THEN [x |-> Trunc(n10 * (bbox.right - edge_clearance) - rand_dist, n10),
              y |-> Trunc(10 * (bbox.top * num_vias + (pp - w * num_vias)) + lateral, n10)]
        ELSE IF pp < (2 * w + h) * num_vias
        THEN [x |-> Trunc(10 * (bbox.right * num_vias - (pp - (w + h) * num_vias))
                              - rand_dist, n10),
              y |-> Trunc(n10 * (bbox.bottom - edge_clearance) + lateral, n10)]
        ELSE [x |-> Trunc(n10 * (bbox.left + edge_clearance) + lateral, n10),
              y |-> Trunc(10 * (bbox.bottom * num_vias - (pp - (2 * w + h) * num_vias))
                              + rand_dist, n10)]

\* pattern == "boundary", randomize on
boundary_positions_random(zone, h_spacing, edge_clearance, rnd) ==
    LET bbox == zone.bbox
        perimeter == 2 * (GetWidth(bbox) + GetHeight(bbox))
        num_vias == Trunc(perimeter, h_spacing)
        raw == [k \in 1..num_vias |->
                    boundary_point_random(bbox, k - 1, num_vias, perimeter, edge_clearance,
                                          h_spacing, rnd)]
    IN  SelectSeq(raw, LAMBDA q : is_point_in_zone_polygon(q, zone, edge_clearance))

\* pattern == "spiral", randomize on: the point is taken at radius +
\* uniform(-h_spacing * 0.1, h_spacing * 0.1) and angle theta +
\* uniform(-0.1, 0.1); theta and radius advance as without randomization.
RECURSIVE spiral_loop_random(_, _, _, _, _, _, _, _)
spiral_loop_random(zone, h_spacing, edge_clearance, max_radius2, theta_m, radius_m, acc, rnd) ==
    IF 2 * radius_m > max_radius2 * 1000 THEN [status |-> "ok", positions |-> acc]
    ELSE IF radius_m < 0 THEN [status |-> "loop", positions |-> acc]
    ELSE LET bbox == zone.bbox
             rand_theta_m == 100 * rnd.u1
             rand_radius_m == 100 * rnd.u2 * h_spacing
             x2_m == (bbox.left + bbox.right) * 1000
                        + 2 * (((radius_m + rand_radius_m)
                                 * CosMilli(theta_m + rand_theta_m)) \div 1000)
             y2_m == (bbox.top + bbox.bottom) * 1000
                        + 2 * (((radius_m + rand_radius_m)
                                 * SinMilli(theta_m + rand_theta_m)) \div 1000)
             pos == [x |-> Trunc(x2_m, 2000), y |-> Trunc(y2_m, 2000)]
             acc2 == IF is_point_in_zone_polygon(pos, zone, edge_clearance)
                     THEN Append(acc, pos) ELSE acc
         IN  IF radius_m = 0 THEN [status |-> "raise", positions |-> acc2]
             ELSE LET theta2 == theta_m + (h_spacing * 1000000) \div radius_m
                  IN  spiral_loop_random(zone, h_spacing, edge_clearance, max_radius2,
                                         theta2,
                                         edge_clearance * 1000
                                             + (h_spacing * theta2 * 1000) \div 6283,
                                         acc2, rnd)

\* calculate_candidate_positions with its randomize argument; rnd are the
\* draws the call makes when it randomizes.
calculate_candidate_positions_randomize(zone, st, rnd) ==
    IF ~randomize_on(st.randomize)
    THEN calculate_candidate_positions(zone, st.pattern, st.h_spacing, st.v_spacing,
                                       st.h_offset, st.v_offset, st.edge_clearance)
    ELSE IF st.pattern = "grid"
    THEN [status |-> "ok",
          positions |-> grid_positions_random(zone, st.h_spacing, st.v_spacing, st.h_offset,
                                              st.v_offset, st.edge_clearance, rnd)]
    ELSE IF st.pattern = "boundary"
    THEN [status |-> "ok",
          positions |-> boundary_positions_random(zone, st.h_spacing, st.edge_clearance, rnd)]
    ELSE IF st.pattern = "spiral"
    THEN spiral_loop_random(zone, st.h_spacing, st.edge_clearance,
                            Min(GetWidth(zone.bbox), GetHeight(zone.bbox)),
                            0, st.edge_clearance * 1000, <<>>, rnd)
    ELSE [status |-> "ok", positions |-> <<>>]

TwiceSettings ==
    { [st EXCEPT !.randomize = rz] : st \in GenSettings, rz \in BOOLEAN }

InitTwice ==
    /\ pc = "first"
    /\ settings \in TwiceSettings
    /\ \E z \in GenZones(settings) :
        board = [pads |-> <<>>, tracks |-> <<>>, zones |-> <<z>>,
                 edges |-> [readable |-> FALSE, bbox |-> Box(0, 0, 0, 0),
                            has_drawings |-> FALSE, poly |-> {}],
                 groups |-> <<>>]
    /\ BuildChecker(board, settings)
    /\ spatial_index = NewIndex(1)
    /\ added = <<>>
    /\ out = NoOut
    /\ net_code = 1
    /\ NoFill

\* The first call.
GenerateFirst ==
    /\ pc = "first"
    /\ \E rnd \in RandomDraws :
        out' = [op |-> "first",
                first |-> calculate_candidate_positions_randomize(board.zones[1], settings,
                                                                   rnd)]
    /\ pc' = "second"
    /\ UNCHANGED <<indexVars, settings, board, checkerVars, fillVars>>

\* The second call, with the same zone and settings and draws of its own.
GenerateSecond ==
    /\ pc = "second"
    /\ \E rnd \in RandomDraws :
        out' = [op |-> "second", first |-> out.first,
                second |-> calculate_candidate_positions_randomize(board.zones[1], settings,
                                                                    rnd)]
    /\ pc' = "compared"
    /\ UNCHANGED <<indexVars, settings, board, checkerVars, fillVars>>

NextTwice == GenerateFirst \/ GenerateSecond

SpecTwice == InitTwice /\ [][NextTwice]_vars

\* C12: with randomize off, two calls of calculate_candidate_positions with
\* the same zone and settings return the same points in the same order, for
\* the grid, boundary and spiral patterns.
C12_PatternDeterminism ==
    (out.op = "second" /\ ~settings.randomize) => out.second = out.first

\* C12 witness: two calls with randomize off that both returned the same
\* list of more than one candidate.
C12_Witness ==
    /\ out.op = "second" /\ ~settings.randomize
    /\ out.first.status = "ok" /\ Len(out.first.positions) > 1
    /\ out.second = out.first

\* C13: get_nearby_vias with radius 0 or a negative radius returns an empty
\* result, whatever the index holds and wherever the query point is (an
\* entry exactly at the query point included).
C13_NonPositiveRadiusEmpty ==
    (out.op = "get_nearby_vias" /\ out.radius <= 0) => out.result = <<>>

(***************************************************************************)
(* Specification SpecDist: point_to_segment_distance applied to a point    *)
(* and a segment.                                                          *)
(***************************************************************************)
SampleSteps == 8    \* the segment is sampled at SampleSteps + 1 points

DistPoints == [x : (-2)..10, y : {-3, 0, 3, 7}]
DistStarts == { [x |-> 0, y |-> 0], [x |-> 4, y |-> 4], [x |-> 2, y |-> -1] }
DistEnds ==
    { [x |-> 10, y |-> 0], [x |-> 4, y |-> 4], [x |-> 0, y |-> 6], [x |-> 0, y |-> 0],
      [x |-> 7, y |-> 3] }

InitDist ==
    /\ pc = "distance"
    /\ board = NoBoard
    /\ settings = [via_size |-> 0]
    /\ spatial_index = NewIndex(1)
    /\ track_index = NewIndex(1)
    /\ pad_index = NewIndex(1)
    /\ board_outline = [type |-> "None"]
    /\ keepout_zones = <<>>
    /\ added = <<>>
    /\ out \in [op : {"arguments"}, point : DistPoints, seg_start : DistStarts,
                seg_end : DistEnds]
    /\ net_code = 1
    /\ NoFill

\* distance = point_to_segment_distance(point, seg_start, seg_end)
Measure ==
    /\ pc = "distance" /\ out.op = "arguments"
    /\ out' = [op |-> "point_to_segment_distance", point |-> out.point,
               seg_start |-> out.seg_start, seg_end |-> out.seg_end,
               result |-> point_to_segment_distance(out.point, out.seg_start, out.seg_end)]
    /\ UNCHANGED <<pc, indexVars, settings, board, checkerVars, fillVars>>

NextDist == Measure

SpecDist == InitDist /\ [][NextDist]_vars

\* The square of the distance from p to the point s + (tn / len2) * (e - s)
\* of the segment, times len2 * len2.
DistSqToParam(p, s, e, tn, len2) ==
    (len2 * (p.x - s.x) - tn * (e.x - s.x)) * (len2 * (p.x - s.x) - tn * (e.x - s.x))
    + (len2 * (p.y - s.y) - tn * (e.y - s.y)) * (len2 * (p.y - s.y) - tn * (e.y - s.y))

\* C14: point_to_segment_distance is the distance to the point of the
\* segment at the projection parameter clamped to [0,1], no point of the
\* segment is closer, a zero-length segment gives the point distance, and
\* the three examples give 3, 2 and 3.
C14_ClampedProjectionDistance ==
    out.op = "point_to_segment_distance" =>
        LET p == out.point
            s == out.seg_start
            e == out.seg_end
            d == out.result
            len2 == DistSq(s, e)
            dot == (p.x - s.x) * (e.x - s.x) + (p.y - s.y) * (e.y - s.y)
            tn == Max(0, Min(len2, dot))
        IN  /\ d.den > 0
            /\ len2 = 0 => d.num = d.den * DistSq(p, s)
            /\ len2 > 0 => d.num * len2 * len2 = d.den * DistSqToParam(p, s, e, tn, len2)
            /\ \A k \in 0..SampleSteps :
                   d.num * SampleSteps * SampleSteps
                       <= d.den * DistSqToParam(p, s, e, k, SampleSteps)
            /\ (s = [x |-> 0, y |-> 0] /\ e = [x |-> 10, y |-> 0] /\ p = [x |-> 5, y |-> 3])
                   => d.num = 9 * d.den
            /\ (s = [x |-> 0, y |-> 0] /\ e = [x |-> 10, y |-> 0] /\ p = [x |-> -2, y |-> 0])
                   => d.num = 4 * d.den
            /\ (s = [x |-> 4, y |-> 4] /\ e = [x |-> 4, y |-> 4] /\ p = [x |-> 4, y |-> 7])
                   => d.num = 9 * d.den

\* C14 witness: the distance of (-2,0) from the segment (0,0)-(10,0), whose
\* projection falls before the start point, has been computed as 2.
C14_Witness ==
    /\ out.op = "point_to_segment_distance"
    /\ out.seg_start = [x |-> 0, y |-> 0] /\ out.seg_end = [x |-> 10, y |-> 0]
    /\ out.point = [x |-> -2, y |-> 0]
    /\ out.result.num = 4 * out.result.den

\* C15: a zone flagged as a rule area is never passed to the fill as a
\* target region, whichever way Run collects the selected zones.
C15_RuleAreaNeverTarget ==
    \A k \in DOMAIN fill_zones : ~fill_zones[k].is_rule_area

\* The board outline cannot be had: its retrieval failed, or the edge
\* bounding box has zero width or zero height.
OutlineUnavailable ==
    \/ ~board.edges.readable
    \/ GetWidth(board.edges.bbox) = 0
    \/ GetHeight(board.edges.bbox) = 0

\* Neither the polygon nor the bounding box of the keepout can be read.
UnreadableKeepout(zone) == zone.outline = "raise" /\ ~zone.bbox_ok

\* C16: can_place_via always returns a decision (accepted with "OK", or
\* rejected with one of the four reasons); without a board outline
\* is_point_in_board is true and no point is rejected as off board; when
\* every keepout of the board is unreadable no point is rejected as inside
\* a keepout.
C16_MissingGeometryPermits ==
    out.op = "can_place_via" =>
        /\ out.result.ok <=> out.result.reason = "OK"
        /\ ~out.result.ok =>
              out.result.reason \in {"off_board", "keepout", "pad", "track"}
        /\ OutlineUnavailable =>
              /\ is_point_in_board(board_outline, settings.via_size, out.point)
              /\ out.result.reason # "off_board"
        /\ (\A k \in DOMAIN keepout_zones : UnreadableKeepout(keepout_zones[k])) =>
              /\ ~is_point_in_keepout(keepout_zones, out.point)
              /\ out.result.reason # "keepout"

\* C16 witness: with the outline and keepout checks on, a board whose edge
\* bounding box has zero width or height and whose keepout is unreadable:
\* a point inside the keepout's bounding box is accepted.
C16_Witness ==
    /\ out.op = "can_place_via"
    /\ settings.check_board_outline /\ settings.check_keepout
    /\ board.edges.readable /\ OutlineUnavailable
    /\ keepout_zones # <<>>
    /\ \A k \in DOMAIN keepout_zones :
          UnreadableKeepout(keepout_zones[k]) /\ InBox(out.point, keepout_zones[k].bbox)
    /\ out.result.ok

\* The positions held by a via index.
IndexedPositions(idx) ==
    UNION { { idx.grid[c][k][1] : k \in DOMAIN idx.grid[c] } : c \in DOMAIN idx.grid }

\* The positions of the vias on the board; until the creation loop these
\* are the vias that were there when the run started.
ExistingViaPositions ==
    { board.tracks[k].pos : k \in { j \in DOMAIN board.tracks :
                                      board.tracks[j].type = "via" } }

\* C17: while the candidates are filtered, the via index used by the
\* spacing query holds every pre-existing via and every candidate accepted
\* so far.
C17_IncrementalInsertion ==
    pc = "filter" =>
        /\ ExistingViaPositions \subseteq IndexedPositions(spatial_index)
        /\ PointsOf(valid_positions) \subseteq IndexedPositions(spatial_index)

\* The positions of the vias that were on the board when the run started
\* (the vias of the run carry the id "N").
PreExistingViaPositions ==
    { board.tracks[k].pos : k \in { j \in DOMAIN board.tracks :
                                      /\ board.tracks[j].type = "via"
                                      /\ board.tracks[j].id # "N" } }

\* The position is within viaDiameter + viaToViaClearance of a via that was
\* on the board when the run started.
NearPreExistingVia(pos) ==
    \E e \in PreExistingViaPositions : SqrtLeq(DistSq(pos, e), ViaMinDistance)

\* The candidates evaluated so far that pass can_place_via and are near a
\* pre-existing via.
RejectedForSpacing ==
    { k \in 1..processed :
        /\ can_place_via(Checker, all_candidate_positions[k], net_code,
                         settings.check_board_outline, settings.check_keepout,
                         settings.check_pads, settings.check_tracks).ok
        /\ NearPreExistingVia(all_candidate_positions[k]) }

\* C18: every accepted position is farther than viaDiameter +
\* viaToViaClearance from every via that was on the board when the run
\* started; during filtering every pre-existing via is in the via index, and
\* the candidates rejected for such a via are the ones counted under the
\* via-spacing reason.
C18_ClearOfPreExistingVias ==
    /\ \A k \in DOMAIN valid_positions : ~NearPreExistingVia(valid_positions[k])
    /\ pc = "filter" =>
          /\ PreExistingViaPositions \subseteq IndexedPositions(spatial_index)
          /\ skip_reasons["via_spacing"] = Cardinality(RejectedForSpacing)

\* C18 witness: on a board with a via, a run has rejected candidates for
\* via spacing, accepted others and created vias.
C18_Witness ==
    /\ pc = "done"
    /\ PreExistingViaPositions # {}
    /\ skip_reasons # <<>> /\ skip_reasons["via_spacing"] > 0
    /\ created_vias > 0
    /\ created_vias = Len(valid_positions)

\* The pads of the board that were indexed, with their circular radius
\* (doubled) as _build_pad_index computes it.
BoardPads ==
    { [pos |-> board.pads[k].pos,
       radius2 |-> Max(board.pads[k].size.x, board.pads[k].size.y)] :
        k \in { j \in DOMAIN board.pads : board.pads[j].readable } }

\* The point is closer to the pad's centre than
\* padRadius + viaRadius + padClearance.
WithinPadClearance(point, pad) ==
    DistLtHalf([num |-> DistSq(point, pad.pos), den |-> 1],
               pad.radius2 + settings.via_size + 2 * settings.pad_clearance)

\* C19: is_point_on_pad is true iff some pad of the board has its centre
\* closer to the point than padRadius + viaRadius + padClearance.
C19_PadCheckEqualsScan ==
    out.op = "can_place_via" =>
        (is_point_on_pad(pad_index, settings.via_size, settings.pad_clearance, out.point)
            <=> \E pad \in BoardPads : WithinPadClearance(out.point, pad))

\* C20: is_point_on_track is true iff some trace of the board on another
\* net than the via's has the point closer to its centre line than
\* viaRadius + width / 2 + trackClearance.
C20_TrackCheckEqualsScan ==
    out.op = "can_place_via" =>
        (is_point_on_track(track_index, settings.via_size, settings.track_clearance,
                           out.point, out.via_net_code)
            <=> \E t \in BoardTraces :
                    t.net_code # out.via_net_code /\ WithinTraceClearance(out.point, t))

\* The point is inside the outline bounding box shrunk by the via radius.
InShrunkOutlineBox(point) ==
    /\ 2 * point.x >= 2 * board.edges.bbox.left + settings.via_size
    /\ 2 * point.x <= 2 * board.edges.bbox.right - settings.via_size
    /\ 2 * point.y >= 2 * board.edges.bbox.top + settings.via_size
    /\ 2 * point.y <= 2 * board.edges.bbox.bottom - settings.via_size

\* C21: when the outline carries the Edge.Cuts drawings, a point inside
\* the shrunk bounding box but outside the region the drawings enclose is
\* not in the board, and with the outline check on can_place_via rejects it
\* as off board.
C21_OutlinePolygonTested ==
    (/\ out.op = "can_place_via"
     /\ board_outline.type = "segments"
     /\ InShrunkOutlineBox(out.point)
     /\ ~Contains(board.edges.poly, out.point)) =>
        /\ ~is_point_in_board(board_outline, settings.via_size, out.point)
        /\ settings.check_board_outline =>
              out.result = [ok |-> FALSE, reason |-> "off_board"]

\* Every position of a returned candidate list lies in the zone's bounding
\* box inset by the edge clearance, and in the zone polygon when Outline()
\* gives one.
AllContained(res, zone) ==
    res.status = "ok" =>
        \A k \in DOMAIN res.positions :
            /\ InInsetBox(res.positions[k], zone.bbox, settings.edge_clearance)
            /\ zone.outline = "poly" => Contains(zone.poly, res.positions[k])

\* C22: every candidate returned by calculate_candidate_positions, for the
\* three patterns, with and without randomization, lies inside the zone
\* bounding box inset by edgeClearance and inside the zone polygon when the
\* polygon is available.
C22_CandidatesContained ==
    /\ out.op \in {"first", "second"} => AllContained(out.first, board.zones[1])
    /\ out.op = "second" => AllContained(out.second, board.zones[1])

\* C22 witness: a randomized call on the L-shaped zone with an edge
\* clearance returned candidates, and fewer than the call without jitter
\* would have (the jitter moved a point out of the region).
C22_Witness ==
    /\ out.op = "first"
    /\ settings.randomize /\ settings.edge_clearance > 0
    /\ board.zones[1].outline = "poly" /\ board.zones[1].id = "B"
    /\ out.first.status = "ok"
    /\ Len(out.first.positions) > 0
    /\ LET plain == calculate_candidate_positions(
                        board.zones[1], settings.pattern, settings.h_spacing,
                        settings.v_spacing, settings.h_offset, settings.v_offset,
                        settings.edge_clearance)
       IN  plain.status = "ok" /\ Len(out.first.positions) < Len(plain.positions)

\* The positions in Reasons (outline, keepout, pads, traces) of the enabled
\* checks that fail for the point and the via net.
FailedChecks(point, via_net_code) ==
    { k \in 1..4 :
        \/ k = 1 /\ settings.check_board_outline
                 /\ ~is_point_in_board(board_outline, settings.via_size, point)
        \/ k = 2 /\ settings.check_keepout /\ is_point_in_keepout(keepout_zones, point)
        \/ k = 3 /\ settings.check_pads
                 /\ is_point_on_pad(pad_index, settings.via_size, settings.pad_clearance,
                                    point)
        \/ k = 4 /\ settings.check_tracks
                 /\ is_point_on_track(track_index, settings.via_size,
                                      settings.track_clearance, point, via_net_code) }

\* C23: a point is rejected iff some enabled check fails (whatever the
\* order of the checks), and the reason returned is that of the first
\* failing check in the order outline, keepout, pads, traces.
C23_FirstFailureReason ==
    out.op = "can_place_via" =>
        LET failed == FailedChecks(out.point, out.via_net_code)
        IN  /\ out.result.ok <=> failed = {}
            /\ ~out.result.ok =>
                  \E k \in failed :
                      /\ \A j \in failed : k <= j
                      /\ out.result.reason = Reasons[k]

\* C23 witness: a point inside a keepout and on a pad, both checks on, is
\* rejected with the keepout reason.
C23_Witness ==
    /\ out.op = "can_place_via"
    /\ FailedChecks(out.point, out.via_net_code) = {2, 3}
    /\ out.result = [ok |-> FALSE, reason |-> "keepout"]

\* The sum of the five rejection counters.
TallySum ==
    skip_reasons["off_board"] + skip_reasons["keepout"] + skip_reasons["pad"]
        + skip_reasons["track"] + skip_reasons["via_spacing"]

\* C24: from the start of the filter loop on, the accepted positions and
\* the five counters together count the candidates evaluated so far (each
\* candidate is accepted or counted once under one reason); when filtering
\* has ended without cancellation they add up to the number of candidates.
C24_TallyConservation ==
    (pc \in {"filter", "create"} \/ (pc = "done" /\ DOMAIN skip_reasons = ReasonSet)) =>
        /\ Len(valid_positions) + TallySum = processed
        /\ (pc = "create" \/ (pc = "done" /\ ~CancelledInFilter)) =>
              Len(valid_positions) + TallySum = Len(all_candidate_positions)

\* C24 witness: a completed run that accepted positions and rejected
\* others for a keepout, for a trace and for via spacing.
C24_Witness ==
    /\ pc = "done" /\ DOMAIN skip_reasons = ReasonSet
    /\ ~CancelledInFilter /\ ~CancelledInCreate
    /\ Len(valid_positions) > 0
    /\ skip_reasons["keepout"] > 0
    /\ skip_reasons["track"] > 0
    /\ skip_reasons["via_spacing"] > 0

\* The candidate list of one target zone of the run.
ZoneCandidates(zone) ==
    calculate_candidate_positions(zone, settings.pattern, settings.h_spacing,
                                  settings.v_spacing, settings.h_offset, settings.v_offset,
                                  settings.edge_clearance).positions

\* The candidate passes can_place_via and the spacing check against the
\* vias that were on the board when the run started.
AcceptedAtStart(pos) ==
    /\ can_place_via(Checker, pos, net_code, settings.check_board_outline,
                     settings.check_keepout, settings.check_pads, settings.check_tracks).ok
    /\ ~NearPreExistingVia(pos)

\* C25: the candidate sequence is the concatenation of the per-zone lists
\* in zone order, duplicates kept; the accepted list is what the evaluation
\* of the first `processed` candidates, each once and in order, leaves; a
\* run that is not cancelled evaluates them all.
C25_CandidateOrderPreserved ==
    all_candidate_positions # <<>> =>
        /\ all_candidate_positions =
              ConcatAll([k \in DOMAIN fill_zones |-> ZoneCandidates(fill_zones[k])])
        /\ processed <= Len(all_candidate_positions)
        /\ valid_positions =
              SelectSeq(SubSeq(all_candidate_positions, 1, processed), AcceptedAtStart)
        /\ (pc = "create" \/ (pc = "done" /\ ~CancelledInFilter)) =>
              processed = Len(all_candidate_positions)

\* C25 witness: a completed run over two overlapping zones whose candidate
\* sequence holds a position twice, both accepted.
C25_Witness ==
    /\ pc = "done" /\ ~CancelledInFilter /\ ~CancelledInCreate
    /\ Len(fill_zones) = 2
    /\ \E j, k \in DOMAIN valid_positions : j < k /\ valid_positions[j] = valid_positions[k]
    /\ \E k \in DOMAIN valid_positions :
          valid_positions[k] \notin PointsOf(ZoneCandidates(fill_zones[2]))

\* The boundary point at the distance d along the perimeter.
PerimeterPoint(bbox, d, edge_clearance) == boundary_point(bbox, d, 1, 1, edge_clearance)

\* The boundary candidates when the raw points are taken at the perimeter
\* parameters 0, h_spacing, 2 * h_spacing, ... below the perimeter.
SteppedBoundaryPositions(zone, h_spacing, edge_clearance) ==
    LET bbox == zone.bbox
        perimeter == 2 * (GetWidth(bbox) + GetHeight(bbox))
        raw == [k \in 1..CeilDiv(perimeter, h_spacing) |->
                    PerimeterPoint(bbox, (k - 1) * h_spacing, edge_clearance)]
    IN  SelectSeq(raw, LAMBDA q : is_point_in_zone_polygon(q, zone, edge_clearance))

\* C26: the boundary pattern returns the points at the perimeter parameters
\* 0, hSpacing, 2 * hSpacing, ... below the perimeter that pass the zone
\* test, for every perimeter and hSpacing.
C26_BoundaryStepIsSpacing ==
    (/\ out.op = "calculate_candidate_positions"
     /\ settings.pattern = "boundary"
     /\ out.result.status = "ok") =>
        out.result.positions =
            SteppedBoundaryPositions(board.zones[1], settings.h_spacing,
                                     settings.edge_clearance)

\* The boundary candidates when floor(perimeter / h_spacing) raw points are
\* spread evenly over the whole perimeter, at the parameters
\* i * perimeter / n.
EvenBoundaryPositions(zone, h_spacing, edge_clearance) ==
    LET bbox == zone.bbox
        perimeter == 2 * (GetWidth(bbox) + GetHeight(bbox))
        n == perimeter \div h_spacing
        raw == [k \in 1..n |-> boundary_point(bbox, k - 1, n, perimeter, edge_clearance)]
    IN  SelectSeq(raw, LAMBDA q : is_point_in_zone_polygon(q, zone, edge_clearance))

\* C26 as amended: the boundary pattern takes n = floor(perimeter /
\* hSpacing) raw points at the perimeter parameters i * perimeter / n, so
\* consecutive raw points are perimeter / n apart, which is at least
\* hSpacing and below 2 * hSpacing; the result is that of steps of exactly
\* hSpacing when the perimeter is a multiple of hSpacing.
C26_BoundaryEvenSteps ==
    (/\ out.op = "calculate_candidate_positions"
     /\ settings.pattern = "boundary"
     /\ out.result.status = "ok") =>
        LET zone == board.zones[1]
            perimeter == 2 * (GetWidth(zone.bbox) + GetHeight(zone.bbox))
            n == perimeter \div settings.h_spacing
        IN  /\ out.result.positions =
                  EvenBoundaryPositions(zone, settings.h_spacing, settings.edge_clearance)
            /\ n * settings.h_spacing <= perimeter
            /\ perimeter < 2 * n * settings.h_spacing
            /\ perimeter % settings.h_spacing = 0 =>
                  out.result.positions =
                      SteppedBoundaryPositions(zone, settings.h_spacing,
                                               settings.edge_clearance)
            /\ (zone.outline # "poly" /\ settings.edge_clearance = 0) =>
                  Len(out.result.positions) = n

\* C26 witness: a boundary call on a zone whose perimeter is no multiple of
\* hSpacing returns all its raw points, one fewer than steps of hSpacing
\* would give.
C26_Witness ==
    /\ out.op = "calculate_candidate_positions"
    /\ settings.pattern = "boundary"
    /\ out.result.status = "ok"
    /\ board.zones[1].outline # "poly" /\ settings.edge_clearance = 0
    /\ (2 * (GetWidth(board.zones[1].bbox) + GetHeight(board.zones[1].bbox)))
           % settings.h_spacing # 0
    /\ Len(out.result.positions) + 1 =
           Len(SteppedBoundaryPositions(board.zones[1], settings.h_spacing,
                                        settings.edge_clearance))

\* C27: the creation phase starts only when every candidate has been
\* evaluated, and no step before it changes the vias or the groups of the
\* board: a run that ends from the filter phase (cancelled, no candidate,
\* no accepted position) leaves them as they were.
C27_BoardUntouchedBeforeCreation ==
    /\ [](pc = "create" => processed = Len(all_candidate_positions))
    /\ [][(pc \in {"idle", "filter"} /\ pc' # "create") =>
              (board'.tracks = board.tracks /\ board'.groups = board.groups)]_vars

\* C27 witness: a run cancelled in the filter loop after positions had been
\* accepted, and the board has no group and no via of the run.
C27_Witness ==
    /\ pc = "done" /\ CancelledInFilter
    /\ Len(valid_positions) > 0
    /\ board.groups = <<>>
    /\ \A k \in DOMAIN board.tracks : board.tracks[k].id # "N"

(***************************************************************************)
(* clear_vias: the vias of the selected net inside the bounding boxes of   *)
(* the selected zones are removed, only those of the plugin's groups when  *)
(* clear_plugin_vias is set.                                               *)
(***************************************************************************)
\* A plausible slip: the group name is compared whole, not as a prefix.
name_equals(name, group_name) == name = <<group_name>>

\* str(group.GetName()).startswith(group_name), on names as sequences of
\* pieces of text.
name_startswith(name, group_name) ==
    Len(name) >= 1 /\ name[1] = group_name

\* "vias": the PCB_VIA_T items of board.GetTracks(), read once.
board_vias(b) == SelectSeq(b.tracks, LAMBDA item : item.type = "via")

\* "group_vias": the vias of the groups whose name starts with group_name;
\* empty when clear_plugin_vias is off.
group_vias(b, st) ==
    IF ~st.clear_plugin_vias THEN {}
    ELSE UNION { { b.groups[g].items[k] : k \in DOMAIN b.groups[g].items } :
                 g \in { j \in DOMAIN b.groups :
                           name_startswith(b.groups[j].name, st.group_name) } }

\* board.Remove(via); the host leaves the board as it is for an item that
\* is no longer on it.
board_remove(tracks, via) == SelectSeq(tracks, LAMBDA item : item # via)

ClearMessage(kind, n) == [kind |-> kind, via_count |-> n]

\* The two loops of clear_vias, "for zone in zones: for via in vias:".
\* cs = [tracks, processed, via_count, updates] is the state of the loops,
\* run = [zones, vias, group_vias, net_code, clear_plugin_vias, cancel_at]
\* what they read; the user cancels at the cancel_at-th call of
\* progress_dlg.Update (never when 0).  zi, vi are the positions in the two
\* lists.
RECURSIVE clear_loop(_, _, _, _)
clear_loop(run, cs, zi, vi) ==
    IF zi > Len(run.zones) THEN [status |-> "done", tracks |-> cs.tracks,
                                 via_count |-> cs.via_count]
    ELSE IF ~run.zones[zi].bbox_ok
    THEN [status |-> "raise", tracks |-> cs.tracks, via_count |-> cs.via_count]
    ELSE IF vi > Len(run.vias) THEN clear_loop(run, cs, zi + 1, 1)
    ELSE LET via == run.vias[vi]
             bbox == run.zones[zi].bbox
             checkpoint == cs.processed % 10 = 0
             updates == IF checkpoint THEN cs.updates + 1 ELSE cs.updates
             cs1 == [cs EXCEPT !.updates = updates]
         IN  IF checkpoint /\ updates = run.cancel_at
             THEN [status |-> "cancelled", tracks |-> cs.tracks,
                   via_count |-> cs.via_count]
             ELSE IF via.net_code # run.net_code THEN clear_loop(run, cs1, zi, vi + 1)
             ELSE IF run.clear_plugin_vias /\ via \notin run.group_vias
             THEN clear_loop(run, cs1, zi, vi + 1)
             ELSE IF InBox(via.pos, bbox)
             THEN clear_loop(run, [cs1 EXCEPT !.tracks = board_remove(@, via),
                                              !.via_count = @ + 1,
                                              !.processed = @ + 1], zi, vi + 1)
             ELSE clear_loop(run, [cs1 EXCEPT !.processed = @ + 1], zi, vi + 1)

\* clear_vias(board, zones, net_code, settings)
clear_vias(b, zones, net, st, cancel_at) ==
    clear_loop([zones |-> zones, vias |-> board_vias(b), group_vias |-> group_vias(b, st),
                net_code |-> net, clear_plugin_vias |-> st.clear_plugin_vias,
                cancel_at |-> cancel_at],
               [tracks |-> b.tracks, processed |-> 0, via_count |-> 0, updates |-> 0],
               1, 1)

(***************************************************************************)
(* Specification SpecClear: Run with the action "clear" on a board with    *)
(* vias in and out of the selected zones, of both nets, in the plugin's    *)
(* group, in other groups and in none.                                     *)
(***************************************************************************)
\* The vias a board may hold: two of net 1 in the plugin's group (one where
\* the zones B and C overlap), one of net 1 in no group, one of net 2 in
\* another group, one of net 1 on the corner of zone B's bounding box in a
\* group with a longer name, and one of net 1 of the plugin's group outside
\* every zone.
ClearVias ==
    << Via("a", 5, 5, 1), Via("b", 15, 5, 1), Via("c", 15, 15, 1), Via("d", 35, 5, 2),
       Via("e", 30, 20, 1), Via("f", 50, 50, 1) >>

ClearGroups(ids) ==
    LET members(want) == SelectSeq(ClearVias, LAMBDA v : v.id \in (want \cap ids))
    IN  << [name |-> GroupName("ViaStitching"), items |-> members({"a", "b", "f"})],
           [name |-> <<"ViaStitching", "Old">>, items |-> members({"e"})],
           [name |-> <<"Other">>, items |-> members({"d"})] >>

ClearBoards ==
    { [pads |-> <<>>,
       tracks |-> <<Trace("T", 30, 14, 38, 18, 2, 1)>>
                      \o SelectSeq(ClearVias, LAMBDA v : v.id \in ids),
       zones |-> <<ZoneB, ZoneC>>,
       edges |-> [readable |-> FALSE, bbox |-> Box(0, 0, 40, 20), has_drawings |-> FALSE,
                  poly |-> {}],
       groups |-> ClearGroups(ids), selection |-> sel,
       api |-> [group_ok |-> TRUE, via_ok |-> TRUE, zones_api |-> "Zones"]] :
        ids \in SUBSET {"a", "b", "c", "d", "e", "f"},
        sel \in { {"B"}, {"C"}, {"B", "C"} } }

InitClear ==
    /\ pc = "clear"
    /\ settings \in { [BaseSettings EXCEPT !.clear_plugin_vias = f] : f \in BOOLEAN }
    /\ board \in ClearBoards
    /\ net_code \in Nets
    /\ spatial_index = NewIndex(1)
    /\ track_index = NewIndex(1)
    /\ pad_index = NewIndex(1)
    /\ board_outline = [type |-> "None"]
    /\ keepout_zones = <<>>
    /\ added = <<>>
    /\ out = NoOut
    /\ NoFill

\* Run with action "clear": the selected zones are collected as for a fill;
\* clear_vias removes vias and reports the count, also when the user
\* cancels; an exception reaches Run's handler.
ClearRun ==
    /\ pc = "clear"
    /\ LET zones == selected_zones(board)
       IN  IF zones = <<>>
           THEN /\ messages' = Append(messages, Message("select_zone"))
                /\ out' = [op |-> "none"]
                /\ UNCHANGED board
           ELSE \E cancel_at \in 0..MaxUpdates :
                  LET r == clear_vias(board, zones, net_code, settings, cancel_at)
                  IN  /\ board' = [board EXCEPT !.tracks = r.tracks]
                      /\ out' = [op |-> "clear_vias", before |-> board.tracks,
                                 zones |-> zones, result |-> r]
                      /\ messages' = Append(messages,
                            IF r.status = "done" THEN ClearMessage("cleared", r.via_count)
                            ELSE IF r.status = "cancelled"
                            THEN ClearMessage("clear_cancelled", r.via_count)
                            ELSE Message("error"))
    /\ pc' = "cleared"
    /\ UNCHANGED <<indexVars, added, settings, checkerVars, net_code, fill_zones,
                   all_candidate_positions, processed, valid_positions, skip_reasons,
                   created_vias, i_create, group>>

NextClear == ClearRun

SpecClear == InitClear /\ [][NextClear]_vars

\* The vias clear_vias took off the board.
RemovedVias ==
    { out.before[k] : k \in { j \in DOMAIN out.before :
                                /\ out.before[j].type = "via"
                                /\ \A m \in DOMAIN board.tracks :
                                      board.tracks[m] # out.before[j] } }

\* The via may be removed: it is of the selected net, inside the bounding
\* box of a selected zone and, when clear_plugin_vias is set, in a group
\* whose name starts with the configured name.
MayRemove(via) ==
    /\ via.net_code = net_code
    /\ \E k \in DOMAIN out.zones : InBox(via.pos, out.zones[k].bbox)
    /\ settings.clear_plugin_vias =>
          \E g \in DOMAIN board.groups :
              /\ name_startswith(board.groups[g].name, settings.group_name)
              /\ \E k \in DOMAIN board.groups[g].items : board.groups[g].items[k] = via

\* C28: clear_vias removes only vias that may be removed, everything else
\* stays on the board, and the count it reports is the number of vias
\* removed.
C28_ClearRemovesOnlyMatching ==
    out.op = "clear_vias" =>
        /\ \A v \in RemovedVias : MayRemove(v)
        /\ \A j \in DOMAIN out.before :
              (out.before[j].type # "via" \/ ~MayRemove(out.before[j])) =>
                  \E k \in DOMAIN board.tracks : board.tracks[k] = out.before[j]
        /\ out.result.status \in {"done", "cancelled"} =>
              /\ messages[Len(messages)].via_count = out.result.via_count
              /\ out.result.via_count = Cardinality(RemovedVias)

(***************************************************************************)
(* Specification SpecRound: a fill run, then Run again on the same board   *)
(* and selection with the action "clear" and otherwise the same settings.  *)
(***************************************************************************)
\* Run with action "clear" after a fill run has ended: the dialog keeps the
\* net and the group name, clear_plugin_vias is on or off; then as ClearRun.
ClearAfterFill ==
    /\ pc = "done"
    /\ \E f \in BOOLEAN :
         LET st == [settings EXCEPT !.clear_plugin_vias = f]
             zones == selected_zones(board)
         IN  /\ settings' = st
             /\ IF zones = <<>>
                THEN /\ messages' = Append(messages, Message("select_zone"))
                     /\ out' = [op |-> "none"]
                     /\ UNCHANGED board
                ELSE \E cancel_at \in 0..MaxUpdates :
                       LET r == clear_vias(board, zones, net_code, st, cancel_at)
                       IN  /\ board' = [board EXCEPT !.tracks = r.tracks]
                           /\ out' = [op |-> "clear_vias", before |-> board.tracks,
                                      zones |-> zones, result |-> r]
                           /\ messages' = Append(messages,
                                 IF r.status = "done"
                                 THEN ClearMessage("cleared", r.via_count)
                                 ELSE IF r.status = "cancelled"
                                 THEN ClearMessage("clear_cancelled", r.via_count)
                                 ELSE Message("error"))
    /\ pc' = "cleared"
    /\ UNCHANGED <<indexVars, added, checkerVars, net_code, fill_zones,
                   all_candidate_positions, processed, valid_positions, skip_reasons,
                   created_vias, i_create, group>>

NextRound ==
    \/ Next
    \/ ClearAfterFill

SpecRound == Init /\ [][NextRound]_vars

\* The vias on the board before the fill: those of the board before the
\* clear that add_via did not make (NewVia gives its vias the id "N").
PreFillVias ==
    SelectSeq(out.before, LAMBDA item : item.type = "via" /\ item.id # "N")

\* The fill made its group, and the clear ran to its end with
\* clear_plugin_vias set on a board without a pre-existing via in a group
\* whose name starts with the configured name.
RoundTripDone ==
    /\ pc = "cleared"
    /\ out.op = "clear_vias"
    /\ out.result.status = "done"
    /\ settings.clear_plugin_vias
    /\ group # 0
    /\ \A v \in group_vias(board, settings) : v.id = "N"

Tolerance == 100    \* collect_existing_via_positions(board, tolerance=100)
MaxRuns == 2        \* SpecImproved: Run is started at most MaxRuns times

\* int(a / b) for b > 0: the quotient, rounded towards zero.
int_div(a, b) == IF a >= 0 THEN a \div b ELSE -((-a) \div b)

\* The position keys of the vias on the board: the via position snapped to
\* the tolerance grid, and the eight grid points around it.
collect_existing_via_positions(b, tolerance) ==
    UNION { { [x |-> int_div(b.tracks[k].pos.x, tolerance) * tolerance + dx * tolerance,
               y |-> int_div(b.tracks[k].pos.y, tolerance) * tolerance + dy * tolerance] :
                 dx \in -1..1, dy \in -1..1 } :
            k \in { j \in DOMAIN b.tracks : b.tracks[j].type = "via" } }

\* get_zone_checker: the point is inside one of the zone's polygons; a
\* zone without a usable outline accepts every point.
zone_checker(zone, point) ==
    IF zone.outline = "poly" THEN \E bx \in zone.poly : InBox(point, bx) ELSE TRUE

\* The grid of place_vias_in_zone, "for i in range(x_count + 1): for j in
\* range(y_count + 1)": x = int(x_start + i * x_step) with
\* x_step = (x_end - x_start) / x_count.
improved_grid(bbox, via_spacing) ==
    LET w == GetWidth(bbox)
        h == GetHeight(bbox)
        x_count == Max(1, int_div(w, via_spacing))
        y_count == Max(1, int_div(h, via_spacing))
    IN  [ k \in 1..((x_count + 1) * (y_count + 1)) |->
            LET i == (k - 1) \div (y_count + 1)
                j == (k - 1) % (y_count + 1)
            IN  [x |-> int_div(bbox.left * x_count + i * w, x_count),
                 y |-> int_div(bbox.top * y_count + j * h, y_count)] ]

\* place_vias_in_zone: the grid points whose key is not a key of an
\* existing via and that the zone checker accepts get a via each.  The
\* result is the board and the list of added vias.
place_vias_in_zone(b, zone, via_size, via_drill, via_spacing, net) ==
    LET existing_via_positions == collect_existing_via_positions(b, Tolerance)
        via_positions ==
            SelectSeq(improved_grid(zone.bbox, via_spacing),
                      LAMBDA point : /\ point \notin existing_via_positions
                                     /\ zone_checker(zone, point))
        serial0 == Len(SelectSeq(b.tracks, LAMBDA item : item.id = "N"))
        added_vias == [ k \in DOMAIN via_positions |->
                          NewVia(via_positions[k], net, via_size, via_drill, serial0 + k) ]
    IN  [board |-> [b EXCEPT !.tracks = @ \o added_vias], added_vias |-> added_vias]

\* get_net_code: the code of a net the board has, None (-1) for a name it
\* does not have.  Net names are modelled by their codes.
get_net_code(b, net_name) == IF net_name \in Nets THEN net_name ELSE -1

\* The loop of Run over the selected zones, from zone k on.  acc holds the
\* board, the added vias and the nets asked for that the board lacks.
RECURSIVE improved_zones(_, _, _, _, _)
improved_zones(acc, zones, k, st, net_name) ==
    IF k > Len(zones) THEN acc
    ELSE LET current_net_name == IF st.use_zone_net THEN zones[k].net_code ELSE net_name
             net == get_net_code(acc.board, current_net_name)
             r == place_vias_in_zone(acc.board, zones[k], st.via_size, st.via_drill,
                                     st.via_spacing, net)
         IN  IF net = -1
             THEN improved_zones([acc EXCEPT !.not_found = Append(@, current_net_name)],
                                 zones, k + 1, st, net_name)
             ELSE improved_zones([acc EXCEPT !.board = r.board,
                                             !.added_vias = @ \o r.added_vias],
                                 zones, k + 1, st, net_name)

\* create_via_group: f"{group_name_base}_{timestamp}", with a counter when
\* the board has a group of that name.
create_via_group(b, vias, net_name) ==
    LET existing_groups == { b.groups[g].name : g \in DOMAIN b.groups }
        group_name == <<"VIA Stitch - ", net_name, "_", "stamp">>
        counter == CHOOSE c \in 1..(Len(b.groups) + 1) :
                      /\ (group_name \o <<"_", c>>) \notin existing_groups
                      /\ \A d \in 1..(c - 1) : (group_name \o <<"_", d>>) \in existing_groups
        unique == IF group_name \in existing_groups THEN group_name \o <<"_", counter>>
                  ELSE group_name
    IN  [b EXCEPT !.groups = Append(@, [name |-> unique, items |-> vias])]

\* The groups of Run: one per net with use_zone_net, else one for all.
RECURSIVE improved_groups(_, _, _)
improved_groups(b, added_vias, nets) ==
    IF nets = {} THEN b
    ELSE LET n == CHOOSE m \in nets : \A o \in nets : m <= o
             vias == SelectSeq(added_vias, LAMBDA v : v.net_code = n)
         IN  improved_groups(create_via_group(b, vias, n), added_vias, nets \ {n})

ZoneP == Zone("P", Box(0, 0, 300, 200), "poly", {Box(0, 0, 300, 200)}, TRUE, 1, FALSE, FALSE)
ZoneQ == Zone("Q", Box(50, 30, 350, 230), "none", {}, TRUE, 2, FALSE, FALSE)
ZoneL == Zone("L", Box(0, 0, 300, 200), "poly", {Box(0, 0, 300, 100), Box(0, 0, 150, 200)},
              TRUE, 1, FALSE, FALSE)

\* The vias a board may hold before the first run: one on a grid point of
\* zone P at spacing 70 that is off the tolerance grid, one on the
\* tolerance grid, one of the other net near a corner.
ImprovedVias == << Via("p", 75, 100, 1), Via("q", 100, 100, 1), Via("r", 260, 170, 2) >>

ImprovedBoards ==
    { [pads |-> <<>>, tracks |-> SelectSeq(ImprovedVias, LAMBDA v : v.id \in ids),
       zones |-> zs, groups |-> <<>>, selection |-> sel] :
        ids \in SUBSET {"p", "q", "r"},
        zs \in { <<ZoneP>>, <<ZoneL>>, <<ZoneP, ZoneQ>> },
        sel \in { {"P", "Q", "L"}, {"Q"} } }

\* The dialog entries: spacings that divide the bounding box into steps on
\* and off the tolerance grid.
ImprovedSettings ==
    { [via_size |-> 6, via_drill |-> 3, via_spacing |-> sp, group_vias |-> g,
       use_zone_net |-> u] : sp \in {70, 100, 150}, g \in BOOLEAN, u \in BOOLEAN }

InitImproved ==
    /\ pc = "improved.run"
    /\ settings \in ImprovedSettings
    /\ board \in ImprovedBoards
    /\ net_code \in {1, 3}
    /\ spatial_index = NewIndex(1)
    /\ track_index = NewIndex(1)
    /\ pad_index = NewIndex(1)
    /\ board_outline = [type |-> "None"]
    /\ keepout_zones = <<>>
    /\ added = <<>>
    /\ out = [op |-> "improved.Run", runs |-> <<>>]
    /\ NoFill

\* ViaStitcher.Run, the dialog closed with OK: the selected zones (rule
\* areas too), a grid of vias on each, the groups, the message.
ImprovedRun ==
    /\ pc = "improved.run"
    /\ Len(out.runs) < MaxRuns
    /\ LET selected == SelectSeq(board.zones, LAMBDA z : z.id \in board.selection)
           r == improved_zones([board |-> board, added_vias |-> <<>>, not_found |-> <<>>],
                               selected, 1, settings, net_code)
           vias_count == Len(r.added_vias)
           nets == IF settings.use_zone_net
                   THEN { r.added_vias[k].net_code : k \in DOMAIN r.added_vias }
                   ELSE {net_code}
       IN  IF selected = <<>>
           THEN /\ messages' = Append(messages, Message("select_zone"))
                /\ out' = [out EXCEPT !.runs = Append(@, [before |-> board.tracks,
                                                           added_vias |-> <<>>])]
                /\ UNCHANGED board
           ELSE /\ board' = IF vias_count > 0 /\ settings.group_vias
                            THEN improved_groups(r.board, r.added_vias, nets)
                            ELSE r.board
                /\ out' = [out EXCEPT !.runs = Append(@, [before |-> board.tracks,
                                                           added_vias |-> r.added_vias])]
                /\ messages' = messages
                      \o [k \in DOMAIN r.not_found |-> Message("net_not_found")]
                      \o << IF vias_count > 0
                            THEN [kind |-> "placed", vias_count |-> vias_count]
                            ELSE Message("none_placed") >>
    /\ UNCHANGED <<pc, indexVars, settings, checkerVars, net_code, fill_zones,
                   all_candidate_positions, processed, valid_positions, skip_reasons,
                   created_vias, i_create, group>>

NextImproved == ImprovedRun

SpecImproved == InitImproved /\ [][NextImproved]_vars

\* The via was created where a via already was when its run began.
OnExistingVia(run, via) ==
    \E k \in DOMAIN run.before :
        /\ run.before[k].type = "via"
        /\ run.before[k].pos = via.pos

\* C30: no run of the first variant creates a via at the position of a via
\* that was on the board when the run began, wherever that via lies; so a
\* second run creates no via at a position the first run filled.
C30_NoViaOnExistingVia ==
    out.op = "improved.Run" =>
        \A n \in DOMAIN out.runs :
            \A k \in DOMAIN out.runs[n].added_vias :
                ~OnExistingVia(out.runs[n], out.runs[n].added_vias[k])
====
